---- MODULE Spec2Model ----
(***************************************************************************)
(* Model of the proration and billing-period engine of pocketsmith-tools:  *)
(* buildDailySpendingMap (src/src/dailySpendingMap.ts) and                  *)
(* calculateCreditCardRepayments with its category breakdown               *)
(* (src/src/types.ts), and of the menu of src/src/index.ts around them.    *)
(*                                                                         *)
(* Time.  Every instant is written on the Pacific/Auckland wall clock as a *)
(* record [ord, ms]: ord is the calendar day counted from January 1 of     *)
(* BaseYear, ms the millisecond of that day.  luxon compares DateTimes as  *)
(* instants and does day arithmetic on the calendar, which is what the     *)
(* operators below do.  Daylight saving is New Zealand's: the first Sunday *)
(* of April is 25 hours long, the last Sunday of September 23 hours, and   *)
(* the sub-day remainder of a diff is divided by the real length of the    *)
(* day it falls in.                                                        *)
(*                                                                         *)
(* Numbers.  Amounts and day counts are JavaScript numbers: IEEE 754       *)
(* doubles, every sum, product and quotient rounded to the nearest double  *)
(* (a tie to the even mantissa).  The 53-digit mantissa is kept on limbs   *)
(* of LimbBits binary digits.                                              *)
(*                                                                         *)
(* Zones.  DateTime.fromISO and DateTime.fromObject without a zone make    *)
(* midnight in the system zone; systemZone is the zone the process runs    *)
(* in, and that midnight is then read on the Auckland clock.               *)
(*                                                                         *)
(* Steps.  An async function runs from one await to the next without      *)
(* interruption; every action is one such run: the choice of the menu up   *)
(* to the first await of its action, the end of a request, of a file       *)
(* operation, of the timer or of a prompt up to the next await.            *)
(*                                                                         *)
(* Spec is the program: the menu, the fetch month by month, the breakdown, *)
(* the update dialogue and Enter, while time passes.  SpecEngine applies   *)
(* the two functions to event lists, SpecPeriods the second to daily maps  *)
(* of any span, SpecCache is getMonthlyEvents over the files of the cache  *)
(* directory, SpecHeadroom the update dialogue on its own.                 *)
(***************************************************************************)
EXTENDS Integers, Sequences, FiniteSets, TLC

\* luxon works at millisecond resolution; this is the length of one day.
MsPerDay == 24 * 60 * 60 * 1000

\* The calendar years the day numbering covers.
CalendarYears == 2025..2028
BaseYear == CHOOSE y \in CalendarYears : \A z \in CalendarYears : y <= z
LastYear == CHOOSE y \in CalendarYears : \A z \in CalendarYears : z <= y

----------------------------------------------------------------------------
(* Gregorian calendar *)

IsLeap(y) == (y % 4 = 0 /\ y % 100 # 0) \/ y % 400 = 0

DaysInYear(y) == IF IsLeap(y) THEN 366 ELSE 365

DaysInMonth(y, m) ==
  IF m = 2 THEN (IF IsLeap(y) THEN 29 ELSE 28)
  ELSE IF m \in {4, 6, 9, 11} THEN 30 ELSE 31

RECURSIVE DaysBeforeYear(_)
DaysBeforeYear(y) ==
  IF y <= BaseYear THEN 0 ELSE DaysBeforeYear(y - 1) + DaysInYear(y - 1)

RECURSIVE DaysBeforeMonth(_, _)
DaysBeforeMonth(y, m) ==
  IF m <= 1 THEN 0 ELSE DaysBeforeMonth(y, m - 1) + DaysInMonth(y, m - 1)

\* The day number of the calendar date y-m-d.
Ord(y, m, d) == DaysBeforeYear(y) + DaysBeforeMonth(y, m) + (d - 1)

MaxOrd == DaysBeforeYear(LastYear + 1) - 1

RECURSIVE YearOfOrd(_, _)
YearOfOrd(o, y) ==
  IF o < DaysInYear(y) THEN <<y, o>> ELSE YearOfOrd(o - DaysInYear(y), y + 1)

RECURSIVE MonthOfOrd(_, _, _)
MonthOfOrd(y, o, m) ==
  IF o < DaysInMonth(y, m) THEN <<m, o + 1>>
  ELSE MonthOfOrd(y, o - DaysInMonth(y, m), m + 1)

\* The date of day number o: its year and day of the year, then the month.
DateOf(y, md) == [year |-> y, month |-> md[1], day |-> md[2]]

DateInYear(yo) == DateOf(yo[1], MonthOfOrd(yo[1], yo[2], 1))

\* The calendar date [year, month, day] of every day number.
YMDTable == [o \in 0..MaxOrd |-> DateInYear(YearOfOrd(o, BaseYear))]

YMD(o) == YMDTable[o]

----------------------------------------------------------------------------
(* luxon DateTime, on the Auckland wall clock *)

DT(o, t) == [ord |-> o, ms |-> t]

\* DateTime comparison (valueOf): by instant.
DTLess(a, b) == a.ord < b.ord \/ (a.ord = b.ord /\ a.ms < b.ms)
DTLeq(a, b) == a.ord < b.ord \/ (a.ord = b.ord /\ a.ms <= b.ms)

StartOfDay(a) == DT(a.ord, 0)
EndOfDay(a) == DT(a.ord, MsPerDay - 1)
\* startOf('month'): the 1st of the month, at midnight.
FirstOfMonth(c) == Ord(c.year, c.month, 1)

StartOfMonth(a) == DT(FirstOfMonth(YMD(a.ord)), 0)

\* plus({ days: n }) and minus({ days: n }): calendar days, same time of day.
PlusDays(a, n) == DT(a.ord + n, a.ms)

\* The day d of month m, or the last day of m when m is shorter.
OrdClamped(y, m, d) == Ord(y, m, IF d > DaysInMonth(y, m) THEN DaysInMonth(y, m) ELSE d)

MonthsOn(c, k, t) == DT(OrdClamped(c.year + (k \div 12), (k % 12) + 1, c.day), t)

MonthsAfter(c, n, t) == MonthsOn(c, (c.month - 1) + n, t)

\* plus({ months: n }): calendar months, the day clamped to the month's end.
PlusMonths(a, n) == MonthsAfter(YMD(a.ord), n, a.ms)

\* toISODate(): the calendar day of the DateTime; the time of day is dropped.
ToISODate(a) == a.ord

----------------------------------------------------------------------------
(* JavaScript numbers: IEEE 754 binary64, round to nearest, ties to even *)

\* Natural numbers of any size: base-LimbBase digits, least significant
\* first, no leading zero digit (<<>> is 0).
LimbBits == 15
LimbBase == 2 ^ LimbBits

RECURSIVE BigOfNat(_)
BigOfNat(n) == IF n = 0 THEN <<>> ELSE <<n % LimbBase>> \o BigOfNat(n \div LimbBase)

RECURSIVE BigStrip(_)
BigStrip(a) ==
  IF a = <<>> THEN a
  ELSE IF a[Len(a)] = 0 THEN BigStrip(SubSeq(a, 1, Len(a) - 1)) ELSE a

RECURSIVE BigAddC(_, _, _)
BigAddC(a, b, c) ==
  IF b = <<>> THEN
    (IF c = 0 THEN a
     ELSE IF a = <<>> THEN <<c>>
     ELSE <<(Head(a) + c) % LimbBase>> \o BigAddC(Tail(a), b, (Head(a) + c) \div LimbBase))
  ELSE IF a = <<>> THEN BigAddC(b, a, c)
  ELSE <<(Head(a) + Head(b) + c) % LimbBase>> \o
       BigAddC(Tail(a), Tail(b), (Head(a) + Head(b) + c) \div LimbBase)

BigAdd(a, b) == BigAddC(a, b, 0)

\* a - b - c for a >= b + c, before the leading zero digits are dropped.
RECURSIVE BigSubC(_, _, _)
BigSubC(a, b, c) ==
  IF a = <<>> THEN <<>>
  ELSE IF b = <<>> /\ c = 0 THEN a
  ELSE <<(Head(a) - (IF b = <<>> THEN 0 ELSE Head(b)) - c) % LimbBase>> \o
       BigSubC(Tail(a), IF b = <<>> THEN b ELSE Tail(b),
               IF Head(a) - (IF b = <<>> THEN 0 ELSE Head(b)) - c < 0 THEN 1 ELSE 0)

BigSub(a, b) == BigStrip(BigSubC(a, b, 0))

RECURSIVE BigScaleC(_, _, _)
BigScaleC(k, b, c) ==
  IF b = <<>> THEN BigOfNat(c)
  ELSE <<(k * Head(b) + c) % LimbBase>> \o
       BigScaleC(k, Tail(b), (k * Head(b) + c) \div LimbBase)

\* k * b for one digit k.
BigScale(k, b) == IF k = 0 \/ b = <<>> THEN <<>> ELSE BigScaleC(k, b, 0)

\* a * LimbBase ^ n.
BigShiftLimbs(a, n) == IF a = <<>> THEN a ELSE [i \in 1..n |-> 0] \o a

RECURSIVE BigMul(_, _)
BigMul(a, b) ==
  IF a = <<>> \/ b = <<>> THEN <<>>
  ELSE BigAdd(BigScale(Head(a), b), BigShiftLimbs(BigMul(Tail(a), b), 1))

RECURSIVE BigLessFrom(_, _, _)
BigLessFrom(a, b, i) ==
  IF i = 0 THEN FALSE
  ELSE IF a[i] # b[i] THEN a[i] < b[i] ELSE BigLessFrom(a, b, i - 1)

BigLess(a, b) ==
  IF Len(a) # Len(b) THEN Len(a) < Len(b) ELSE BigLessFrom(a, b, Len(a))

RECURSIVE BitLength(_)
BitLength(n) == IF n = 0 THEN 0 ELSE 1 + BitLength(n \div 2)

\* The number of binary digits of a.
BigBitLength(a) ==
  IF a = <<>> THEN 0 ELSE (Len(a) - 1) * LimbBits + BitLength(a[Len(a)])

\* a * 2^n.
BigShiftLeft(a, n) == BigShiftLimbs(BigScale(2 ^ (n % LimbBits), a), n \div LimbBits)

\* The digit i of a, 0 beyond its last digit.
BigDigit(a, i) == IF i <= Len(a) THEN a[i] ELSE 0

\* floor(a / 2^r) for r < LimbBits.
BigHalve(a, r) ==
  BigStrip([i \in 1..Len(a) |->
              (a[i] \div 2 ^ r) + (BigDigit(a, i + 1) % 2 ^ r) * 2 ^ (LimbBits - r)])

\* floor(a / 2^n).
BigShiftRight(a, n) ==
  IF n \div LimbBits >= Len(a) THEN <<>>
  ELSE BigHalve(SubSeq(a, (n \div LimbBits) + 1, Len(a)), n % LimbBits)

\* The binary digit n of a (digit 0 is the lowest).
BigBit(a, n) == (BigDigit(a, (n \div LimbBits) + 1) \div 2 ^ (n % LimbBits)) % 2

\* Some binary digit of a below digit n is 1.
BigHasBitBelow(a, n) ==
  \/ \E i \in 1..(n \div LimbBits) : BigDigit(a, i) # 0
  \/ BigDigit(a, (n \div LimbBits) + 1) % 2 ^ (n % LimbBits) # 0

\* A double: sign * man * 2^exp with man of exactly MantissaBits binary
\* digits, or man = <<>> for the two zeros.  The amounts and day counts of
\* the program stay far from the subnormal and the infinite range; the
\* numbers parseFloat makes of an answer do not, see NaN, Infinity and
\* ToNumber.
MantissaBits == 53

Double(s, m, e) == [sign |-> s, man |-> m, exp |-> e]

Zero == Double(1, <<>>, 0)
IsZero(x) == x.man = <<>>

\* The values of a JavaScript number that are no finite number.
NaN == [nan |-> TRUE]
Infinity(s) == [infinite |-> TRUE, sign |-> s]

isNaN(p) == p = NaN
IsInfinite(p) == p \in {Infinity(1), Infinity(-1)}

\* A number that is false in a condition: 0, -0 and NaN.
IsFalsy(x) == isNaN(x) \/ (~IsInfinite(x) /\ IsZero(x))

\* m has MantissaBits digits, or one more after a carry out of the rounding.
Renormalised(s, m, e) ==
  IF BigBitLength(m) > MantissaBits THEN Double(s, BigShiftRight(m, 1), e + 1)
  ELSE Double(s, m, e)

\* sign * m * 2^e (and a little more when inexact) to the nearest double,
\* a tie to the one with an even mantissa; drop is the number of digits
\* m has too many.
RoundDropping(s, m, e, inexact, drop) ==
  IF drop <= 0 THEN Double(s, BigShiftLeft(m, -drop), e + drop)
  ELSE IF BigBit(m, drop - 1) = 1
          /\ (inexact \/ BigHasBitBelow(m, drop - 1) \/ BigBit(m, drop) = 1)
  THEN Renormalised(s, BigAdd(BigShiftRight(m, drop), <<1>>), e + drop)
  ELSE Double(s, BigShiftRight(m, drop), e + drop)

Round(s, m, e, inexact) ==
  IF m = <<>> THEN Double(s, <<>>, 0)
  ELSE RoundDropping(s, m, e, inexact, BigBitLength(m) - MantissaBits)

\* The double of an integer.
Plain(n) == IF n < 0 THEN Round(-1, BigOfNat(-n), 0, FALSE) ELSE Round(1, BigOfNat(n), 0, FALSE)

NumNeg(x) == [x EXCEPT !.sign = -@]

\* |x| < |y| for doubles other than zero.
MagnitudeLess(x, y) == x.exp < y.exp \/ (x.exp = y.exp /\ BigLess(x.man, y.man))

\* x + y for exp of x >= exp of y, neither zero; a is the mantissa of x
\* on the exponent of y.
AddAligned(x, a, y) ==
  IF x.sign = y.sign THEN Round(x.sign, BigAdd(a, y.man), y.exp, FALSE)
  ELSE IF a = y.man THEN Zero
  ELSE IF BigLess(a, y.man) THEN Round(y.sign, BigSub(y.man, a), y.exp, FALSE)
  ELSE Round(x.sign, BigSub(a, y.man), y.exp, FALSE)

\* x + y for exp of x >= exp of y.  A y below a quarter of the last digit
\* of x changes nothing.
AddOrdered(x, y) ==
  IF x.exp - y.exp > MantissaBits + 2 THEN x
  ELSE AddAligned(x, BigShiftLeft(x.man, x.exp - y.exp), y)

\* x + y.
NumAdd(x, y) ==
  IF IsZero(x) THEN (IF IsZero(y) /\ x.sign # y.sign THEN Zero ELSE y)
  ELSE IF IsZero(y) THEN x
  ELSE IF x.exp >= y.exp THEN AddOrdered(x, y) ELSE AddOrdered(y, x)

NumSub(x, y) == NumAdd(x, NumNeg(y))

\* x * y.
NumMul(x, y) == Round(x.sign * y.sign, BigMul(x.man, y.man), x.exp + y.exp, FALSE)

\* Long division, one digit of base LimbBase at a time.  The divisor d has
\* its top binary digit in the top place of its last limb, so the quotient
\* of the two leading digits of the remainder by the leading digit of d is
\* the next digit or at most 2 above it.
RECURSIVE DivideDigit(_, _, _)
DivideDigit(shifted, d, q) ==
  IF BigLess(shifted, BigScale(q, d)) THEN DivideDigit(shifted, d, q - 1)
  ELSE <<BigSub(shifted, BigScale(q, d)), q>>

DivideEstimate(shifted, d) ==
  (BigDigit(shifted, Len(d) + 1) * LimbBase + BigDigit(shifted, Len(d))) \div d[Len(d)]

DivideTrial(shifted, d, estimate) ==
  DivideDigit(shifted, d, IF estimate >= LimbBase THEN LimbBase - 1 ELSE estimate)

\* n more digits below the quotient so far; r < d is the remainder.
RECURSIVE DivideLimbs(_, _, _, _)
DivideNext(rq, d, n, quotient) == DivideLimbs(rq[1], d, n - 1, <<rq[2]>> \o quotient)
DivideShifted(shifted, d, n, quotient) ==
  DivideNext(DivideTrial(shifted, d, DivideEstimate(shifted, d)), d, n, quotient)
DivideLimbs(r, d, n, quotient) ==
  IF n = 0 THEN <<quotient, r>>
  ELSE DivideShifted(BigShiftLimbs(r, 1), d, n, quotient)

QuotientLimbs == 4

\* floor(a * LimbBase^QuotientLimbs / d) and the remainder, for a < 2d.
Divide(a, d) ==
  IF BigLess(a, d) THEN DivideLimbs(a, d, QuotientLimbs, <<>>)
  ELSE DivideLimbs(BigSub(a, d), d, QuotientLimbs, <<1>>)

\* The mantissa m moved up to fill its limbs.
Justified(m) == BigShiftLeft(m, Len(m) * LimbBits - MantissaBits)

RoundQuotient(s, qr, e) == Round(s, BigStrip(qr[1]), e, qr[2] # <<>>)

\* x / y for y other than zero.
NumDiv(x, y) ==
  IF IsZero(x) THEN Double(x.sign * y.sign, <<>>, 0)
  ELSE RoundQuotient(x.sign * y.sign, Divide(Justified(x.man), Justified(y.man)),
                     x.exp - y.exp - QuotientLimbs * LimbBits)

\* x < y.
NumLess(x, y) ==
  IF IsZero(x) THEN ~IsZero(y) /\ y.sign = 1
  ELSE IF IsZero(y) THEN x.sign = -1
  ELSE IF x.sign # y.sign THEN x.sign < y.sign
  ELSE IF x.sign = 1 THEN MagnitudeLess(x, y) ELSE MagnitudeLess(y, x)

\* x === y: the two zeros are equal.
NumEq(x, y) == x = y \/ (IsZero(x) /\ IsZero(y))
NumLeq(x, y) == NumLess(x, y) \/ NumEq(x, y)
NumPositive(x) == NumLess(Zero, x)
NumNonNegative(x) == NumLeq(Zero, x)

----------------------------------------------------------------------------
(* New Zealand daylight saving and luxon's diff *)

HourMs == 60 * 60 * 1000

\* The DateTime t milliseconds after midnight of day o, t outside the day
\* carried into the day number.
Normalised(o, t) == DT(o + (t \div MsPerDay), t % MsPerDay)

\* Day 0 is a Wednesday: the Sundays are the days o with o % 7 = 4.
IsSunday(o) == o % 7 = 4

\* Daylight time ends on the first Sunday of April and starts on the last
\* Sunday of September.
FirstSundayOfApril(y) == CHOOSE o \in Ord(y, 4, 1)..Ord(y, 4, 7) : IsSunday(o)
LastSundayOfSeptember(y) == CHOOSE o \in Ord(y, 9, 24)..Ord(y, 9, 30) : IsSunday(o)

DaylightEnds == [y \in CalendarYears |-> FirstSundayOfApril(y)]
DaylightStarts == [y \in CalendarYears |-> LastSundayOfSeptember(y)]

YearOf(o) == IF o < 0 THEN BaseYear ELSE IF o > MaxOrd THEN LastYear ELSE YMD(o).year

\* The Auckland clock shows daylight time (UTC+13) at the wall-clock time a:
\* until 03:00 of the day it ends (the hour from 02:00 shows twice, the first
\* showing is meant) and from 03:00 of the day it starts (the clock jumps
\* there from 02:00).
IsDaylightTime(a) ==
  \/ DTLess(a, DT(DaylightEnds[YearOf(a.ord)], 3 * HourMs))
  \/ DTLeq(DT(DaylightStarts[YearOf(a.ord)], 3 * HourMs), a)

AucklandOffset(a) == IF IsDaylightTime(a) THEN 13 * HourMs ELSE 12 * HourMs

\* The same for an instant u written on the UTC clock: the changes are at
\* 14:00 UTC of the Saturday.
IsDaylightTimeUTC(u) ==
  \/ DTLess(u, DT(DaylightEnds[YearOf(u.ord)] - 1, 14 * HourMs))
  \/ DTLeq(DT(DaylightStarts[YearOf(u.ord)] - 1, 14 * HourMs), u)

\* The instant u of the UTC clock read on the Auckland clock.
ToAuckland(u) ==
  Normalised(u.ord, u.ms + (IF IsDaylightTimeUTC(u) THEN 13 * HourMs ELSE 12 * HourMs))

\* The milliseconds that pass from a to b, both on the Auckland clock and
\* at most a few days apart.
ElapsedMs(a, b) ==
  (b.ord - a.ord) * MsPerDay + (b.ms - a.ms) - (AucklandOffset(b) - AucklandOffset(a))

\* The lengths a day can have, and the part of each that has passed at its
\* last millisecond.
DayLengths == {23 * HourMs, 24 * HourMs, 25 * HourMs}
LastMillisecondFractions ==
  [len \in DayLengths |-> NumDiv(Plain(len - 1), Plain(len))]

\* remainingMillis / (highWater - cursor); the quotient at the last
\* millisecond of a day, where most spans end, is looked up.
DayFraction(remaining, len) ==
  IF len \in DayLengths /\ remaining = len - 1 THEN LastMillisecondFractions[len]
  ELSE NumDiv(Plain(remaining), Plain(len))

\* days + remainingMillis / (highWater - cursor).
DaysAndFraction(days, cursor, highWater, later) ==
  NumAdd(Plain(days), DayFraction(ElapsedMs(cursor, later), ElapsedMs(cursor, highWater)))

\* luxon's diff in days for earlier <= later: cursor is earlier moved on by
\* the whole calendar days that fit, highWater one day after it; when cursor
\* is later itself the count is the integer.
DiffOrdered(earlier, later) ==
  IF earlier.ms = later.ms THEN Plain(later.ord - earlier.ord)
  ELSE IF earlier.ms < later.ms
  THEN DaysAndFraction(later.ord - earlier.ord, DT(later.ord, earlier.ms),
                       DT(later.ord + 1, earlier.ms), later)
  ELSE DaysAndFraction(later.ord - earlier.ord - 1, DT(later.ord - 1, earlier.ms),
                       DT(later.ord, earlier.ms), later)

\* a.diff(b, 'days').days: the diff of the earlier and the later of the two,
\* negated when a is the earlier.
DiffDays(a, b) ==
  IF DTLess(a, b) THEN NumNeg(DiffOrdered(a, b)) ELSE DiffOrdered(b, a)

----------------------------------------------------------------------------
(* Inputs *)

\* The largest number of events the upstream service returns.
MaxEvents == 2

\* The category title each aggregation path excludes.  The two source files
\* spell the literal with different characters after "Credit Card Repayments ":
\* types.ts has the credit-card emoji U+1F4B3, dailySpendingMap.ts has the four
\* characters U+00F0 U+0178 U+2019 U+00B3 (the emoji's UTF-8 bytes read as
\* Windows-1252).
SentinelBreakdown == "Credit Card Repayments U+1F4B3"
SentinelDailyMap == "Credit Card Repayments U+00F0 U+0178 U+2019 U+00B3"

\* An ISO date string "YYYY-MM-DD" is the day number of that calendar date.
Date(y, m, d) == Ord(y, m, d)

Event(a, d, t, b, x, rt, ri) ==
  [amount |-> a, date |-> d, title |-> t, is_bill |-> b, is_transfer |-> x,
   repeat_type |-> rt, repeat_interval |-> ri]

\* The events the upstream service may hold, in the order it returns them:
\* the fields of PocketSmithEvent the engine reads (category.title and
\* category.is_bill flattened).
EventCatalogue ==
  << Event(-200, Date(2025, 3, 15), "Groceries", FALSE, FALSE, "monthly", 1),
     Event(-150, Date(2025, 4, 3), "Power", TRUE, FALSE, "monthly", 1),
     Event(-300, Date(2025, 4, 15), "Groceries", FALSE, FALSE, "monthly", 1),
     Event(-500, Date(2025, 4, 15), "Savings", FALSE, TRUE, "monthly", 1),
     Event(0, Date(2025, 4, 15), "Misc", FALSE, FALSE, "monthly", 1),
     Event(-400, Date(2025, 4, 20), SentinelBreakdown, TRUE, FALSE, "monthly", 1),
     Event(150, Date(2025, 5, 2), "Groceries", TRUE, FALSE, "monthly", 1),
     Event(-730, Date(2025, 6, 10), "Insurance", FALSE, FALSE, "yearly", 1),
     Event(-60, Date(2025, 12, 20), "Power", FALSE, FALSE, "weekly", 1),
     Event(-900, Date(2026, 2, 10), "Groceries", FALSE, FALSE, "monthly", 3),
     Event(-80, Date(2026, 3, 31), "Power", TRUE, FALSE, "monthly", 1),
     Event(-290, Date(2028, 2, 10), "Groceries", FALSE, FALSE, "monthly", 1) >>

\* The events of the catalogue at the positions in picked, in catalogue order.
RECURSIVE PickEvents(_)
PickEvents(picked) ==
  IF picked = {} THEN <<>>
  ELSE LET first == CHOOSE i \in picked : \A j \in picked : i <= j
       IN  <<EventCatalogue[first]>> \o PickEvents(picked \ {first})

\* What the service may return: at most MaxEvents events of the catalogue.
EventLists ==
  {PickEvents(picked) :
     picked \in {P \in SUBSET (1..Len(EventCatalogue)) : Cardinality(P) <= MaxEvents}}

\* The months (Pacific/Auckland) the clock of a run may show, in order.
Clock ==
  << [year |-> 2025, month |-> 4], [year |-> 2026, month |-> 1],
     [year |-> 2027, month |-> 12] >>

\* The zones the process may run in: Auckland itself, UTC, and the zones
\* furthest ahead of and behind UTC (neither has daylight saving).
SystemZones == {"Pacific/Auckland", "UTC", "Pacific/Kiritimati", "Pacific/Pago_Pago"}

VARIABLES
  now,                   \* DateTime.now().setZone('Pacific/Auckland'): year, month
  systemZone,            \* the zone the process runs in, see SystemZones
  processEnv,            \* process.env: PS_API_KEY and PS_SCENARIO_ID
  remoteEvents,          \* the events the upstream service holds
  allEvents,             \* index.ts global allEvents
  dailySpending,         \* index.ts global dailySpending
  creditCardRepayments,  \* the repayment schedule on the screen
  lastAction,            \* what happened last
  range,                 \* the start and end last given to getMonthlyPeriods
  monthlyPeriods,        \* what getMonthlyPeriods returned for range
  headroom,              \* the headroom dialogue of updateCreditCardRepayments
  cacheFiles,            \* the files of the cache directory, by <<year, month>>
  monthlyCall,           \* the last call of getMonthlyEvents and how it ended
  menu,                  \* where showMainMenu is: at the choice, in an action, at Enter
  fetching               \* the loop of fetchDataFromPocketSmith: months done, runs so far

vars == <<now, systemZone, processEnv, remoteEvents, allEvents, dailySpending,
          creditCardRepayments, lastAction, range, monthlyPeriods, headroom,
          cacheFiles, monthlyCall, menu, fetching>>

----------------------------------------------------------------------------
(* DateTimes made in the system zone *)

\* How far the clock of a zone is ahead of UTC at its midnight of date.
ZoneOffset(zone, date) ==
  IF zone = "Pacific/Auckland" THEN AucklandOffset(DT(date, 0))
  ELSE IF zone = "Pacific/Kiritimati" THEN 14 * HourMs
  ELSE IF zone = "Pacific/Pago_Pago" THEN -11 * HourMs
  ELSE 0

\* Midnight of date in a zone, as an instant on the Auckland clock.
MidnightIn(zone, date) == ToAuckland(Normalised(date, -ZoneOffset(zone, date)))

\* Midnight of a date in the system zone, with the fields of the date.
LocalMidnight(c, date) ==
  [year |-> c.year, month |-> c.month, day |-> c.day,
   at |-> MidnightIn(systemZone, date)]

\* DateTime.fromISO(s) and DateTime.fromObject({year, month, day}) give
\* midnight of that date in the system zone: the fields read back are the
\* date's, the instant is that midnight.
FromISO(date) == LocalMidnight(YMD(date), date)

FromObject(y, m, d) ==
  [year |-> y, month |-> m, day |-> d, at |-> MidnightIn(systemZone, Ord(y, m, d))]

\* .setZone('Pacific/Auckland'): the same instant, read on the Auckland clock.
SetZoneAuckland(local) == local.at

----------------------------------------------------------------------------
(* dateUtils: the fiscal year *)

\* April 1 00:00:00.000 of startYear to March 31 23:59:59.999 of the next year,
\* Pacific/Auckland.
FinancialYearFrom(startYear) ==
  [start |-> StartOfDay(DT(Ord(startYear, 4, 1), 0)),
   end   |-> EndOfDay(DT(Ord(startYear + 1, 3, 31), 0))]

getCurrentNZFinancialYear ==
  FinancialYearFrom(IF now.month < 4 THEN now.year - 1 ELSE now.year)

\* endOf('month'): the last millisecond of the month.
LastOfMonth(c) == Ord(c.year, c.month, DaysInMonth(c.year, c.month))

EndOfMonth(a) == DT(LastOfMonth(YMD(a.ord)), MsPerDay - 1)

\* getMonthlyPeriods without `monthEnd < end ? monthEnd : end`: every entry
\* ends at its month's end.
MonthlyPeriodNotCutAtEnd(current, month, start, end) ==
  [start |-> IF DTLeq(start, current) THEN current ELSE start,
   end |-> EndOfMonth(current),
   year |-> month.year, month |-> month.month]

\* The entry pushed for the month that starts at current.
MonthlyPeriod(current, month, start, end) ==
  [start |-> IF DTLeq(start, current) THEN current ELSE start,
   end |-> IF DTLess(EndOfMonth(current), end) THEN EndOfMonth(current) ELSE end,
   year |-> month.year, month |-> month.month]

\* The loop `while (current <= endMonth)` from current on.
RECURSIVE MonthlyPeriodsFrom(_, _, _, _)
MonthlyPeriodsFrom(current, endMonth, start, end) ==
  IF DTLess(endMonth, current) THEN <<>>
  ELSE <<MonthlyPeriod(current, YMD(current.ord), start, end)>>
       \o MonthlyPeriodsFrom(StartOfMonth(PlusMonths(current, 1)), endMonth, start, end)

getMonthlyPeriods(start, end) ==
  MonthlyPeriodsFrom(StartOfMonth(start), EndOfMonth(end), start, end)

\* Before getMonthlyPeriods was called, and while no headroom dialogue runs.
NoRange == [start |-> DT(0, 0), end |-> DT(0, 0)]
NoDialogue == [pc |-> "idle"]
NoFetch == [done |-> 0, runs |-> 0]

----------------------------------------------------------------------------
(* dailySpendingMap.ts *)

Abs(n) == IF n < 0 THEN -n ELSE n

\* MonthlySpan without `if (endDate > fyEnd) endDate = fyEnd`.
MonthlySpanEndNotClipped(eventDate, repeatInterval, fyStart, fyEnd) ==
  LET start0 == StartOfMonth(eventDate)
      end0   == EndOfDay(PlusDays(PlusMonths(start0, repeatInterval), -1))
  IN  [startDate |-> IF DTLess(start0, fyStart) THEN fyStart ELSE start0,
       endDate   |-> end0]

\* `if (startDate < fyStart) startDate = fyStart; if (endDate > fyEnd) endDate = fyEnd`.
ClipToFinancialYear(start0, end0, fyStart, fyEnd) ==
  [startDate |-> IF DTLess(start0, fyStart) THEN fyStart ELSE start0,
   endDate   |-> IF DTLess(fyEnd, end0) THEN fyEnd ELSE end0]

\* endDate = startDate.plus({months}).minus({days: 1}).endOf('day'), then clipped.
MonthlySpanFrom(start0, repeatInterval, fyStart, fyEnd) ==
  ClipToFinancialYear(start0, EndOfDay(PlusDays(PlusMonths(start0, repeatInterval), -1)),
                      fyStart, fyEnd)

\* The span a monthly event is spread over, clipped to the fiscal year.
MonthlySpan(eventDate, repeatInterval, fyStart, fyEnd) ==
  MonthlySpanFrom(StartOfMonth(eventDate), repeatInterval, fyStart, fyEnd)

\* ProratedSpan with the default case spreading over the whole fiscal year.
ProratedSpanDefaultYearly(event, eventDate, fyStart, fyEnd) ==
  IF event.repeat_type = "monthly"
  THEN MonthlySpan(eventDate, event.repeat_interval, fyStart, fyEnd)
  ELSE [startDate |-> fyStart, endDate |-> fyEnd]

\* The switch on repeat_type: the span of each case.
ProratedSpan(event, eventDate, fyStart, fyEnd) ==
  IF event.repeat_type = "monthly"
  THEN MonthlySpan(eventDate, event.repeat_interval, fyStart, fyEnd)
  ELSE IF event.repeat_type = "yearly"
  THEN [startDate |-> fyStart, endDate |-> fyEnd]
  ELSE MonthlySpan(eventDate, event.repeat_interval, fyStart, fyEnd)

\* totalDays = endDate.diff(startDate, 'days').days + 1.
TotalDays(startDate, endDate) == NumAdd(DiffDays(endDate, startDate), Plain(1))

\* dailyAmount = amount / totalDays, and the result.
ProratedOver(amount, span) ==
  [dailyAmount |-> NumDiv(Plain(amount), TotalDays(span.startDate, span.endDate)),
   startDate |-> span.startDate, endDate |-> span.endDate]

calculateProratedSpending(event, eventDate, fyStart, fyEnd) ==
  ProratedOver(Abs(event.amount), ProratedSpan(event, eventDate, fyStart, fyEnd))

\* The keys the loop `currentDate = from; while (currentDate <= to)
\* currentDate = currentDate.plus({days: 1})` visits: currentDate keeps the
\* time of day of from, so the day of to is visited when that time of day is
\* not after to's.
DayKeys(from, to) ==
  ToISODate(from)..(IF from.ms <= to.ms THEN ToISODate(to) ELSE ToISODate(to) - 1)

\* dailySpending[dateKey] = (dailySpending[dateKey] || 0) + dailyAmount on
\* every key of keys; a key the map does not have yet is created.
AddDaily(map, keys, dailyAmount) ==
  [k \in DOMAIN map \cup keys |->
     IF k \in keys
     THEN NumAdd(IF k \in DOMAIN map THEN map[k] ELSE Zero, dailyAmount)
     ELSE map[k]]

AddBill(map, dateKey, amount) ==
  [k \in DOMAIN map \cup {dateKey} |->
     IF k = dateKey
     THEN NumAdd(IF k \in DOMAIN map THEN map[k] ELSE Zero, Plain(amount))
     ELSE map[k]]

\* The loop over the days of the prorated span.
AddProrated(map, p) == AddDaily(map, DayKeys(p.startDate, p.endDate), p.dailyAmount)

\* The loop body once eventDate is known.
AddEventDated(map, event, eventDate, fyStart, fyEnd) ==
  IF event.is_transfer THEN map
  ELSE IF event.title = SentinelDailyMap THEN map
  ELSE IF DTLess(eventDate, StartOfDay(fyStart))
          \/ DTLess(StartOfDay(fyEnd), eventDate) THEN map
  ELSE IF event.is_bill
  THEN AddBill(map, ToISODate(eventDate), Abs(event.amount))
  ELSE AddProrated(map, calculateProratedSpending(event, eventDate, fyStart, fyEnd))

\* One iteration of the loop over the events.
AddEvent(map, event, fyStart, fyEnd) ==
  AddEventDated(map, event, SetZoneAuckland(FromISO(event.date)), fyStart, fyEnd)

RECURSIVE AddEvents(_, _, _, _)
AddEvents(map, events, fyStart, fyEnd) ==
  IF events = <<>> THEN map
  ELSE AddEvents(AddEvent(map, Head(events), fyStart, fyEnd), Tail(events),
                 fyStart, fyEnd)

\* Every day of the fiscal year set to 0, then the events added.
BuildFor(fy, events) ==
  AddEvents([k \in DayKeys(StartOfDay(fy.start), StartOfDay(fy.end)) |-> Zero],
            events, fy.start, fy.end)

buildDailySpendingMap(events) == BuildFor(getCurrentNZFinancialYear, events)

\* The map with no key: `let dailySpending: DailySpendingMap = {}`.
EmptyMap == [k \in {} |-> Zero]

\* `dailySpending[dateKey] || 0`: 0 for a key the map does not hold and for
\* a value that is 0, -0 or NaN.
getSpendingForDate(map, date) ==
  IF ToISODate(date) \in DOMAIN map /\ ~IsFalsy(map[ToISODate(date)])
  THEN map[ToISODate(date)]
  ELSE Zero

\* The loop `total += getSpendingForDate(dailySpending, currentDate)` over
\* the days lo..hi, one day after the other.  The test on the total so far
\* has TLC work it out before it goes on to the next day.
RECURSIVE SumDays(_, _, _, _)
SumDays(map, lo, hi, total) ==
  IF lo > hi THEN total
  ELSE IF total = Zero
  THEN SumDays(map, lo + 1, hi, NumAdd(Zero, getSpendingForDate(map, DT(lo, 0))))
  ELSE SumDays(map, lo + 1, hi, NumAdd(total, getSpendingForDate(map, DT(lo, 0))))

getSpendingForDateRange(map, startDate, endDate) ==
  SumDays(map, StartOfDay(startDate).ord, StartOfDay(endDate).ord, Zero)

----------------------------------------------------------------------------
(* types.ts: the category breakdown of one billing period *)

\* calculateEventProratedPeriod: its own copy of the switch on repeat_type.
EventProratedSpan(event, eventDate, fyStart, fyEnd) ==
  IF event.repeat_type = "monthly"
  THEN MonthlySpan(eventDate, event.repeat_interval, fyStart, fyEnd)
  ELSE IF event.repeat_type = "yearly"
  THEN [startDate |-> fyStart, endDate |-> fyEnd]
  ELSE MonthlySpan(eventDate, event.repeat_interval, fyStart, fyEnd)

\* totalDays and dailyAmount of calculateEventProratedPeriod.
EventProratedOver(amount, span) ==
  [startDate |-> span.startDate, endDate |-> span.endDate,
   dailyAmount |-> NumDiv(Plain(amount), TotalDays(span.startDate, span.endDate))]

\* The fiscal year that starts in fyStartYear, made in Pacific/Auckland.
EventProratedPeriodIn(event, eventDate, fyStartYear) ==
  EventProratedOver(
    Abs(event.amount),
    EventProratedSpan(event, eventDate,
                      StartOfDay(DT(Ord(fyStartYear, 4, 1), 0)),
                      EndOfDay(DT(Ord(fyStartYear + 1, 3, 31), 0))))

\* calculateEventProratedPeriod taking the current calendar year as the start
\* year of the fiscal year, without `now.month < 4 ? now.year - 1 : now.year`.
calculateEventProratedPeriodOfCalendarYear(event, eventDate) ==
  EventProratedPeriodIn(event, eventDate, now.year)

\* The fiscal year is derived again from the current date.
calculateEventProratedPeriod(event, eventDate) ==
  EventProratedPeriodIn(event, eventDate,
                        IF now.month < 4 THEN now.year - 1 ELSE now.year)

\* `startDate <= periodEnd && endDate >= periodStart`.
SpansOverlap(p, periodStart, periodEnd) ==
  DTLeq(p.startDate, periodEnd) /\ DTLeq(periodStart, p.endDate)

doesProratedEventOverlapPeriod(event, eventDate, periodStart, periodEnd) ==
  SpansOverlap(calculateEventProratedPeriod(event, eventDate), periodStart, periodEnd)

\* dailyAmount * overlapDays, or 0 when overlapStart > overlapEnd.
OverlapAmount(dailyAmount, overlapStart, overlapEnd) ==
  IF DTLess(overlapEnd, overlapStart) THEN Zero
  ELSE NumMul(dailyAmount, TotalDays(overlapStart, overlapEnd))

\* overlapStart is the later start, overlapEnd the earlier end.
ProratedAmountOf(p, periodStart, periodEnd) ==
  OverlapAmount(p.dailyAmount,
                IF DTLess(periodStart, p.startDate) THEN p.startDate ELSE periodStart,
                IF DTLess(p.endDate, periodEnd) THEN p.endDate ELSE periodEnd)

\* dailyAmount * overlapDays, or 0 when the spans do not overlap.
calculateProratedAmountForPeriod(event, periodStart, periodEnd) ==
  ProratedAmountOf(
    calculateEventProratedPeriod(event, SetZoneAuckland(FromISO(event.date))),
    periodStart, periodEnd)

\* The filter callback once eventDate is known.
IsRelevantDated(event, eventDate, periodStart, periodEnd) ==
  IF event.is_transfer \/ event.title = SentinelBreakdown THEN FALSE
  ELSE IF event.is_bill
  THEN DTLeq(StartOfDay(periodStart), eventDate) /\ DTLeq(eventDate, EndOfDay(periodEnd))
  ELSE doesProratedEventOverlapPeriod(event, eventDate, periodStart, periodEnd)

\* The filter that selects the events relevant for the period.
IsRelevantEvent(event, periodStart, periodEnd) ==
  IsRelevantDated(event, SetZoneAuckland(FromISO(event.date)), periodStart, periodEnd)

RECURSIVE FilterEvents(_, _, _)
FilterEvents(events, periodStart, periodEnd) ==
  IF events = <<>> THEN <<>>
  ELSE (IF IsRelevantEvent(Head(events), periodStart, periodEnd)
        THEN <<Head(events)>> ELSE <<>>)
       \o FilterEvents(Tail(events), periodStart, periodEnd)

\* categoryMap is a Map: its entries in insertion order.
NewCategory(title) ==
  [categoryTitle |-> title, totalAmount |-> Zero, bills |-> <<>>, proratedAmount |-> Zero]

\* AccumulateEvent without `category.totalAmount += amount` for a bill.
AccumulateEventBillNotTotalled(category, event, periodStart, periodEnd) ==
  IF event.is_bill
  THEN [category EXCEPT
          !.bills = Append(@, [event |-> event, amount |-> Abs(event.amount),
                               date |-> SetZoneAuckland(FromISO(event.date))])]
  ELSE LET proratedAmount == calculateProratedAmountForPeriod(event, periodStart, periodEnd)
       IN  [category EXCEPT
              !.proratedAmount = NumAdd(@, proratedAmount),
              !.totalAmount = NumAdd(@, proratedAmount)]

\* `category.proratedAmount += proratedAmount; category.totalAmount += proratedAmount`.
AddProratedAmount(category, proratedAmount) ==
  [category EXCEPT
     !.proratedAmount = NumAdd(@, proratedAmount),
     !.totalAmount = NumAdd(@, proratedAmount)]

\* One iteration of the grouping loop, on the entry of the event's category.
AccumulateEvent(category, event, periodStart, periodEnd) ==
  IF event.is_bill
  THEN [category EXCEPT
          !.bills = Append(@, [event |-> event, amount |-> Abs(event.amount),
                               date |-> SetZoneAuckland(FromISO(event.date))]),
          !.totalAmount = NumAdd(@, Plain(Abs(event.amount)))]
  ELSE AddProratedAmount(
         category, calculateProratedAmountForPeriod(event, periodStart, periodEnd))

\* categoryMap.get(title): the position of the entry.
EntryOf(categoryMap, title) ==
  CHOOSE i \in 1..Len(categoryMap) : categoryMap[i].categoryTitle = title

\* `if (!categoryMap.has(categoryTitle)) categoryMap.set(...)`.
WithEntry(categoryMap, title) ==
  IF \E i \in 1..Len(categoryMap) : categoryMap[i].categoryTitle = title
  THEN categoryMap
  ELSE Append(categoryMap, NewCategory(title))

\* The body of the grouping loop for one event.
AccumulateInto(categoryMap, event, periodStart, periodEnd) ==
  [categoryMap EXCEPT ![EntryOf(categoryMap, event.title)] =
                        AccumulateEvent(@, event, periodStart, periodEnd)]
RECURSIVE GroupByCategory(_, _, _, _)
GroupByCategory(categoryMap, events, periodStart, periodEnd) ==
  IF events = <<>> THEN categoryMap
  ELSE GroupByCategory(
         AccumulateInto(WithEntry(categoryMap, Head(events).title), Head(events),
                        periodStart, periodEnd),
         Tail(events), periodStart, periodEnd)

RECURSIVE FilterNonZero(_)
FilterNonZero(categories) ==
  IF categories = <<>> THEN <<>>
  ELSE (IF NumPositive(Head(categories).totalAmount) THEN <<Head(categories)>> ELSE <<>>)
       \o FilterNonZero(Tail(categories))

\* Array.prototype.sort with (a, b) => b.totalAmount - a.totalAmount: stable,
\* descending by totalAmount.
RECURSIVE InsertDescending(_, _)
InsertDescending(sorted, c) ==
  IF sorted = <<>> THEN <<c>>
  ELSE IF NumLess(Head(sorted).totalAmount, c.totalAmount)
  THEN <<c>> \o sorted
  ELSE <<Head(sorted)>> \o InsertDescending(Tail(sorted), c)

RECURSIVE SortDescending(_, _)
SortDescending(categories, sorted) ==
  IF categories = <<>> THEN sorted
  ELSE SortDescending(Tail(categories), InsertDescending(sorted, Head(categories)))

calculateCategoryBreakdown(events, periodStart, periodEnd) ==
  LET relevantEvents == FilterEvents(events, periodStart, periodEnd)
      categoryMap == GroupByCategory(<<>>, relevantEvents, periodStart, periodEnd)
  IN  SortDescending(FilterNonZero(categoryMap), <<>>)

----------------------------------------------------------------------------
(* types.ts: the billing periods *)

\* The month after month m of year y, the year rolling over after December.
\* NextMonthOf without the year rollover after December.
NextMonthOfSameYear(y, m) ==
  IF m + 1 > 12 THEN [year |-> y, month |-> 1] ELSE [year |-> y, month |-> m + 1]

NextMonthOf(y, m) ==
  IF m + 1 > 12 THEN [year |-> y + 1, month |-> 1] ELSE [year |-> y, month |-> m + 1]

\* The forward-looking filter comparing the month numbers only.
IsFromCurrentMonthOnwardsByMonthOnly(repaymentYear, repaymentMonth) ==
  repaymentMonth >= now.month

\* `repaymentDate >= currentMonthDate`: both are the 1st of their month, made
\* in the system zone.
IsFromCurrentMonthOnwards(repaymentYear, repaymentMonth) ==
  LET repaymentDate == FromObject(repaymentYear, repaymentMonth, 1)
      currentMonthDate == FromObject(now.year, now.month, 1)
  IN  DTLeq(currentMonthDate.at, repaymentDate.at)

\* periodStart is the 3rd of the billing month, periodEnd the 2nd of the next
\* month; repaymentMonth and repaymentYear are nextMonth and nextYear.
BillingPeriodUntil(currentBillingYear, currentBillingMonth, next) ==
  [periodStart |->
     StartOfDay(SetZoneAuckland(FromObject(currentBillingYear, currentBillingMonth, 3))),
   periodEnd |-> EndOfDay(SetZoneAuckland(FromObject(next.year, next.month, 2))),
   repaymentYear |-> next.year,
   repaymentMonth |-> next.month]

\* The billing period of the cycle that starts in currentBillingMonth.
BillingPeriod(currentBillingYear, currentBillingMonth) ==
  BillingPeriodUntil(currentBillingYear, currentBillingMonth,
                     NextMonthOf(currentBillingYear, currentBillingMonth))

\* The period pushed to billingPeriods, when its repayment month passes the
\* filter.
EmittedPeriod(cycle, map, events) ==
  IF IsFromCurrentMonthOnwards(cycle.repaymentYear, cycle.repaymentMonth)
  THEN << [repaymentMonth |-> <<cycle.repaymentYear, cycle.repaymentMonth>>,
           periodStart |-> cycle.periodStart,
           periodEnd |-> cycle.periodEnd,
           totalSpending |-> getSpendingForDateRange(map, cycle.periodStart, cycle.periodEnd),
           categoryBreakdown |->
             calculateCategoryBreakdown(events, cycle.periodStart, cycle.periodEnd)] >>
  ELSE <<>>

\* `currentBillingMonth++`, with the year rollover.
FollowingBillingMonth(currentBillingYear, currentBillingMonth) ==
  IF currentBillingMonth + 1 > 12
  THEN [year |-> currentBillingYear + 1, month |-> 1]
  ELSE [year |-> currentBillingYear, month |-> currentBillingMonth + 1]

\* One pass of the `while (true)` loop for the cycle that starts in
\* currentBillingMonth of currentBillingYear, and the passes after it.  The
\* string repaymentMonth "YYYY-MM" is the pair <<year, month>>.
RECURSIVE BillingPeriodsFrom(_, _, _, _, _)
RECURSIVE BillingPeriodsWith(_, _, _, _, _)
BillingPeriodsWith(cycle, following, latestDate, map, events) ==
  IF DTLess(latestDate.at, cycle.periodEnd) THEN <<>>
  ELSE EmittedPeriod(cycle, map, events)
       \o BillingPeriodsFrom(following.year, following.month, latestDate, map, events)
BillingPeriodsFrom(currentBillingYear, currentBillingMonth, latestDate, map, events) ==
  BillingPeriodsWith(BillingPeriod(currentBillingYear, currentBillingMonth),
                     FollowingBillingMonth(currentBillingYear, currentBillingMonth),
                     latestDate, map, events)

\* availableDates[0] and availableDates[length - 1] of the keys sorted by
\* instant: the smallest and the largest key (the test on the neighbouring
\* day only spares the comparison with every key for most candidates).
EarliestKey(map) ==
  CHOOSE k \in DOMAIN map : (k - 1) \notin DOMAIN map /\ \A j \in DOMAIN map : k <= j
LatestKey(map) ==
  CHOOSE k \in DOMAIN map : (k + 1) \notin DOMAIN map /\ \A j \in DOMAIN map : j <= k

\* The month the first billing cycle starts in: the month of the earliest
\* date, or the next one when the earliest date is after the 3rd.
FirstBillingMonth(earliestDate) ==
  IF earliestDate.day > 3
  THEN (IF earliestDate.month = 12
        THEN [year |-> earliestDate.year + 1, month |-> 1]
        ELSE [year |-> earliestDate.year, month |-> earliestDate.month + 1])
  ELSE [year |-> earliestDate.year, month |-> earliestDate.month]

\* The loop started at startMonth of startYear.
BillingPeriodsSince(first, latestDate, map, events) ==
  BillingPeriodsFrom(first.year, first.month, latestDate, map, events)

calculateCreditCardRepayments(map, events) ==
  IF DOMAIN map = {} THEN <<>>
  ELSE BillingPeriodsSince(FirstBillingMonth(FromISO(EarliestKey(map))),
                           FromISO(LatestKey(map)), map, events)

----------------------------------------------------------------------------
(* utils/inputUtils.ts: the answers typed at the prompts *)

\* An answer is the sequence of its characters.  A character is written as
\* itself when it is printable ASCII, as "\t", "\n", "\f" or "\r", and as
\* "U+" with its four hexadecimal digits otherwise.  The answers of the
\* model are made of ASCII, Latin-1, the white space below and the five
\* characters of SpecialLowerCase.

\* WhiteSpace and LineTerminator of ECMAScript: the characters
\* String.prototype.trim strips and parseFloat skips.
WhiteSpace ==
  { "\t", "\n", "U+000B", "\f", "\r", " ", "U+00A0", "U+1680", "U+2000",
    "U+2001", "U+2002", "U+2003", "U+2004", "U+2005", "U+2006", "U+2007",
    "U+2008", "U+2009", "U+200A", "U+2028", "U+2029", "U+202F", "U+205F",
    "U+3000", "U+FEFF" }

IsSpace(c) == c \in WhiteSpace

\* s.charAt(i), 1-based: the empty string past the end.
At(s, i) == IF i \in 1..Len(s) THEN s[i] ELSE ""

\* The first position from i on that holds no white space.
RECURSIVE SkipSpaces(_, _)
SkipSpaces(s, i) == IF IsSpace(At(s, i)) THEN SkipSpaces(s, i + 1) ELSE i

\* The last position up to i that holds no white space.
RECURSIVE LastNonSpace(_, _)
LastNonSpace(s, i) == IF IsSpace(At(s, i)) THEN LastNonSpace(s, i - 1) ELSE i

\* String.prototype.trim.
Trim(s) ==
  IF SkipSpaces(s, 1) > Len(s) THEN <<>>
  ELSE SubSeq(s, SkipSpaces(s, 1), LastNonSpace(s, Len(s)))

\* The capital letters of ASCII and Latin-1 and, at the same place, the
\* small letter of each.
UpperCaseLetters ==
  << "A", "B", "C", "D", "E", "F", "G", "H", "I", "J", "K", "L", "M",
     "N", "O", "P", "Q", "R", "S", "T", "U", "V", "W", "X", "Y", "Z",
     "U+00C0", "U+00C1", "U+00C2", "U+00C3", "U+00C4", "U+00C5", "U+00C6",
     "U+00C7", "U+00C8", "U+00C9", "U+00CA", "U+00CB", "U+00CC", "U+00CD",
     "U+00CE", "U+00CF", "U+00D0", "U+00D1", "U+00D2", "U+00D3", "U+00D4",
     "U+00D5", "U+00D6", "U+00D8", "U+00D9", "U+00DA", "U+00DB", "U+00DC",
     "U+00DD", "U+00DE" >>

LowerCaseLetters ==
  << "a", "b", "c", "d", "e", "f", "g", "h", "i", "j", "k", "l", "m",
     "n", "o", "p", "q", "r", "s", "t", "u", "v", "w", "x", "y", "z",
     "U+00E0", "U+00E1", "U+00E2", "U+00E3", "U+00E4", "U+00E5", "U+00E6",
     "U+00E7", "U+00E8", "U+00E9", "U+00EA", "U+00EB", "U+00EC", "U+00ED",
     "U+00EE", "U+00EF", "U+00F0", "U+00F1", "U+00F2", "U+00F3", "U+00F4",
     "U+00F5", "U+00F6", "U+00F8", "U+00F9", "U+00FA", "U+00FB", "U+00FC",
     "U+00FD", "U+00FE" >>

\* The characters outside Latin-1 whose lower case holds a character of
\* Latin-1: the Kelvin sign, the Angstrom sign, the capital Y with diaeresis,
\* the capital sharp s, and the capital I with a dot above, which becomes
\* two characters.
SpecialLowerCase(c) ==
  CASE c = "U+212A" -> <<"k">>
    [] c = "U+212B" -> <<"U+00E5">>
    [] c = "U+0178" -> <<"U+00FF">>
    [] c = "U+1E9E" -> <<"U+00DF">>
    [] c = "U+0130" -> <<"i", "U+0307">>
    [] OTHER -> <<c>>

\* The lower case of one character, as a string of characters.
LowerCase(c) ==
  IF \E k \in DOMAIN UpperCaseLetters : UpperCaseLetters[k] = c
  THEN <<LowerCaseLetters[CHOOSE k \in DOMAIN UpperCaseLetters : UpperCaseLetters[k] = c]>>
  ELSE SpecialLowerCase(c)

\* String.prototype.toLowerCase.
RECURSIVE ToLowerCase(_)
ToLowerCase(s) ==
  IF s = <<>> THEN <<>> ELSE LowerCase(Head(s)) \o ToLowerCase(Tail(s))

\* trimmed.replace('%', ''): the first '%' only.
RemoveAt(s, i) == SubSeq(s, 1, i - 1) \o SubSeq(s, i + 1, Len(s))

ReplaceFirstPercent(s) ==
  IF \E i \in 1..Len(s) : s[i] = "%"
  THEN RemoveAt(s, CHOOSE i \in 1..Len(s) :
                     s[i] = "%" /\ \A j \in 1..(i - 1) : s[j] # "%")
  ELSE s

Digits == <<"0", "1", "2", "3", "4", "5", "6", "7", "8", "9">>
IsDigit(c) == \E d \in 1..10 : Digits[d] = c
DigitValue(c) == (CHOOSE d \in 1..10 : Digits[d] = c) - 1

\* The number of decimal digits from position i on.
RECURSIVE DigitsRun(_, _)
DigitsRun(s, i) == IF IsDigit(At(s, i)) THEN 1 + DigitsRun(s, i + 1) ELSE 0

\* The digits without the zeros they begin with.
RECURSIVE SignificantDigits(_)
SignificantDigits(digits) ==
  IF digits # <<>> /\ Head(digits) = "0" THEN SignificantDigits(Tail(digits))
  ELSE digits

\* Natural numbers of hundreds of digits, as the limbs of BigOfNat: the
\* same sums, differences and products, written with a carry that is looked
\* up instead of passed along, so that no definition calls itself once per
\* digit.
GreatestOf(a, b) == IF a > b THEN a ELSE b
LeastOf(a, b) == IF a < b THEN a ELSE b

\* a without the zero digits at its top.
WideTop(a) ==
  IF \A i \in 1..Len(a) : a[i] = 0 THEN 0
  ELSE CHOOSE i \in 1..Len(a) : a[i] # 0 /\ \A j \in (i + 1)..Len(a) : a[j] = 0

WideStrip(a) == SubSeq(a, 1, WideTop(a))

\* a + b: a carry enters digit i when the digit below it overflows, or is
\* full and takes a carry itself.
WideDigitSum(a, b, i) == BigDigit(a, i) + BigDigit(b, i)

WideCarryFrom(a, b, i, j) ==
  IF \E l \in j..(i - 1) : WideDigitSum(a, b, l) >= LimbBase THEN 1 ELSE 0

WideCarry(a, b, i) ==
  IF i = 1 \/ WideDigitSum(a, b, i - 1) < LimbBase - 1 THEN 0
  ELSE IF WideDigitSum(a, b, i - 1) >= LimbBase THEN 1
  ELSE IF \A k \in 1..(i - 1) : WideDigitSum(a, b, k) = LimbBase - 1 THEN 0
  ELSE WideCarryFrom(a, b, i,
         CHOOSE j \in 1..(i - 1) :
           /\ WideDigitSum(a, b, j) # LimbBase - 1
           /\ \A k \in (j + 1)..(i - 1) : WideDigitSum(a, b, k) = LimbBase - 1)

WideAdd(a, b) ==
  IF a = <<>> THEN b
  ELSE IF b = <<>> THEN a
  ELSE WideStrip([i \in 1..(GreatestOf(Len(a), Len(b)) + 1) |->
                    (WideDigitSum(a, b, i) + WideCarry(a, b, i)) % LimbBase])

\* a - b for a >= b: digit i lends when the digit below it is short, or is
\* level and lends itself.
WideBorrow(a, b, i) ==
  IF i = 1 \/ BigDigit(a, i - 1) > BigDigit(b, i - 1) THEN 0
  ELSE IF BigDigit(a, i - 1) < BigDigit(b, i - 1) THEN 1
  ELSE IF \E j \in 1..(i - 1) :
            /\ BigDigit(a, j) < BigDigit(b, j)
            /\ \A k \in (j + 1)..(i - 1) : BigDigit(a, k) = BigDigit(b, k)
  THEN 1 ELSE 0

WideSub(a, b) ==
  IF b = <<>> THEN a
  ELSE WideStrip([i \in 1..Len(a) |->
                    (BigDigit(a, i) - BigDigit(b, i) - WideBorrow(a, b, i)) % LimbBase])

\* a < b.
WideLess(a, b) ==
  \E i \in 1..GreatestOf(Len(a), Len(b)) :
    /\ BigDigit(a, i) < BigDigit(b, i)
    /\ \A j \in (i + 1)..GreatestOf(Len(a), Len(b)) : BigDigit(a, j) = BigDigit(b, j)

\* k * b for one digit k: the low halves of the digit products, and the
\* high halves one place up.
WideScale(k, b) ==
  IF k = 0 \/ b = <<>> THEN <<>>
  ELSE WideAdd(WideStrip([i \in 1..Len(b) |-> (k * b[i]) % LimbBase]),
               WideStrip(<<0>> \o [i \in 1..Len(b) |-> (k * b[i]) \div LimbBase]))

\* a * 2^n.
WideShiftLeft(a, n) == BigShiftLimbs(WideScale(2 ^ (n % LimbBits), a), n \div LimbBits)

\* The digits lo to hi of a, each at its place, times b; a * b.
RECURSIVE WideMulDigits(_, _, _, _)
WideMulDigits(a, b, lo, hi) ==
  IF lo > hi THEN <<>>
  ELSE IF lo = hi THEN BigShiftLimbs(WideScale(a[lo], b), lo - 1)
  ELSE WideAdd(WideMulDigits(a, b, lo, (lo + hi) \div 2),
               WideMulDigits(a, b, ((lo + hi) \div 2) + 1, hi))

WideMul(a, b) == IF a = <<>> \/ b = <<>> THEN <<>> ELSE WideMulDigits(a, b, 1, Len(a))

\* 5^n and 10^n.
RECURSIVE WidePow5(_)
WidePow5(n) ==
  IF n <= 6 THEN <<5 ^ n>>
  ELSE WideMul(WidePow5(n \div 2), WidePow5(n - (n \div 2)))

WidePow10(n) == WideShiftLeft(WidePow5(n), n)

\* The natural number a string of digits spells: four digits make one
\* limb, a longer string is its first half times 10^(the length of the
\* second) plus its second half.
RECURSIVE DigitsValue(_, _)
DigitsValue(digits, n) ==
  IF n = 0 THEN 0 ELSE DigitsValue(digits, n - 1) * 10 + DigitValue(digits[n])

RECURSIVE WideOfDigits(_)
WideOfDigits(digits) ==
  IF Len(digits) <= 4 THEN BigOfNat(DigitsValue(digits, Len(digits)))
  ELSE WideAdd(WideMul(WideOfDigits(SubSeq(digits, 1, Len(digits) \div 2)),
                       WidePow10(Len(digits) - (Len(digits) \div 2))),
               WideOfDigits(SubSeq(digits, (Len(digits) \div 2) + 1, Len(digits))))

\* The value of the n digits of an exponent from position i on; from 99999
\* on the value is 99999, an exponent no answer of the model comes back
\* from into the range of the doubles.
RECURSIVE ExponentValue(_, _, _)
ExponentValue(s, i, n) ==
  IF n = 0 THEN 0
  ELSE LeastOf(99999, ExponentValue(s, i, n - 1) * 10 + DigitValue(s[i + n - 1]))

ExponentDigits(s, q) == ExponentValue(s, q, DigitsRun(s, q))

\* The exponent part at position p: 'e' or 'E', a sign or none, and at least
\* one digit; otherwise it is not part of the number.
Exponent(s, p) ==
  IF At(s, p) \notin {"e", "E"} THEN 0
  ELSE IF At(s, p + 1) = "-" THEN -ExponentDigits(s, p + 2)
  ELSE IF At(s, p + 1) = "+" THEN ExponentDigits(s, p + 2)
  ELSE ExponentDigits(s, p + 1)

\* floor(a / d) and the remainder of a: long division, one digit of base
\* LimbBase at a time, the divisor moved up to fill its last digit.  The
\* digits of a above the place of the first digit of the quotient are the
\* first remainder; the quotient of the two leading digits of a remainder
\* by the leading digit of d is the next digit or at most 2 above it.
RECURSIVE WideDivideDigit(_, _, _)
WideDivideDigit(shifted, d, q) ==
  IF WideLess(shifted, WideScale(q, d)) THEN WideDivideDigit(shifted, d, q - 1)
  ELSE <<WideSub(shifted, WideScale(q, d)), q>>

WideDivideTrial(shifted, d) ==
  WideDivideDigit(shifted, d, LeastOf(LimbBase - 1, DivideEstimate(shifted, d)))

RECURSIVE WideDivideFrom(_, _, _, _, _)
WideDivideNext(a, i, rq, d, quotient) ==
  WideDivideFrom(a, i - 1, rq[1], d, <<rq[2]>> \o quotient)
WideDivideFrom(a, i, r, d, quotient) ==
  IF i = 0 THEN <<WideStrip(quotient), r>>
  ELSE WideDivideNext(a, i, WideDivideTrial(WideStrip(<<a[i]>> \o r), d), d, quotient)

WideDivideJustified(a, d) ==
  IF Len(a) < Len(d) THEN <<<<>>, a>>
  ELSE WideDivideFrom(a, Len(a) - Len(d) + 1,
                      WideStrip(SubSeq(a, Len(a) - Len(d) + 2, Len(a))), d, <<>>)

WideDivideBy(a, d, up) == WideDivideJustified(WideShiftLeft(a, up), WideShiftLeft(d, up))

WideDivide(a, d) == WideDivideBy(a, d, LimbBits - BitLength(d[Len(d)]))

\* The exponents of the last binary digit of the least and of the greatest
\* double.
MinExponent == -1074
MaxExponent == 971

\* A rounded x as a value of the number type: zero when nothing is left of
\* the mantissa, an infinity past the greatest double.
Finite(x) ==
  IF x.man = <<>> THEN Double(x.sign, <<>>, 0)
  ELSE IF x.exp > MaxExponent THEN Infinity(x.sign)
  ELSE x

\* sign * m * 2^e (and a little more when inexact) as the nearest value of
\* the number type: a double of 53 digits, one of fewer digits at
\* MinExponent, a zero or an infinity.
ToNumber(s, m, e, inexact) ==
  Finite(RoundDropping(s, m, e, inexact,
                       GreatestOf(BigBitLength(m) - MantissaBits, MinExponent - e)))

\* m / 5^n / 2^n, from the quotient of m with up more binary digits by
\* 5^n: up is chosen for the quotient to have more digits than a mantissa.
QuotientToNumber(s, qr, e) == ToNumber(s, qr[1], e, qr[2] # <<>>)

RatioToNumber(s, m, d, n, up) ==
  QuotientToNumber(s, WideDivide(WideShiftLeft(m, up), d), -up - n)

FractionToNumber(s, m, d, n) ==
  RatioToNumber(s, m, d, n,
                GreatestOf(0, BigBitLength(d) - BigBitLength(m) + MantissaBits + 3))

\* The number of the decimal digits times 10^e: from 10^309 on an infinity
\* and below 10^-324 a zero, whatever the digits; between them the nearest
\* value of the exact product or quotient, 10^e taken as 5^e * 2^e.
DecimalToNumber(s, digits, e) ==
  IF digits = <<>> THEN Double(s, <<>>, 0)
  ELSE IF Len(digits) - 1 + e >= 309 THEN Infinity(s)
  ELSE IF Len(digits) + e <= -324 THEN Double(s, <<>>, 0)
  ELSE IF e >= 0 THEN ToNumber(s, WideMul(WideOfDigits(digits), WidePow5(e)), e, FALSE)
  ELSE FractionToNumber(s, WideOfDigits(digits), WidePow5(-e), -e)

\* The decimal literal at i with nInt digits, then '.' and nFrac digits or none.
DecimalWith(s, i, sign, nInt, nFrac) ==
  IF nInt + nFrac = 0 THEN NaN
  ELSE DecimalToNumber(
         sign,
         SignificantDigits(SubSeq(s, i, i + nInt - 1)
                             \o SubSeq(s, i + nInt + 1, i + nInt + nFrac)),
         Exponent(s, i + nInt + (IF At(s, i + nInt) = "." THEN 1 + nFrac ELSE 0))
           - nFrac)

Decimal(s, i, sign, nInt) ==
  DecimalWith(s, i, sign, nInt,
              IF At(s, i + nInt) = "." THEN DigitsRun(s, i + nInt + 1) ELSE 0)

\* After the sign: "Infinity", or the longest decimal literal that begins
\* the string.
StrDecimal(s, i, sign) ==
  IF i + 7 <= Len(s)
     /\ SubSeq(s, i, i + 7) = <<"I", "n", "f", "i", "n", "i", "t", "y">>
  THEN Infinity(sign)
  ELSE Decimal(s, i, sign, DigitsRun(s, i))

ParseFrom(s, i) ==
  StrDecimal(s, IF At(s, i) \in {"+", "-"} THEN i + 1 ELSE i,
             IF At(s, i) = "-" THEN -1 ELSE 1)

\* parseFloat: leading white space skipped, the rest of the string after the
\* number ignored, NaN when no number begins the string.
parseFloat(s) == ParseFrom(s, SkipSpaces(s, 1))

\* `percentage < 0`: false for NaN and for the two zeros.
IsLessThanZero(p) ==
  IF isNaN(p) THEN FALSE
  ELSE IF IsInfinite(p) THEN p.sign = -1
  ELSE NumLess(p, Zero)

\* `percentage > 100`.
IsMoreThanHundred(p) ==
  IF isNaN(p) THEN FALSE
  ELSE IF IsInfinite(p) THEN p.sign = 1
  ELSE NumLess(Plain(100), p)

\* The test of getPercentageInput without `percentage > 100`.
IsRejectedWithoutUpperLimit(p) == isNaN(p) \/ IsLessThanZero(p)

\* `isNaN(percentage) || percentage < 0 || percentage > 100`: ask again.
IsRejected(p) == isNaN(p) \/ IsLessThanZero(p) \/ IsMoreThanHundred(p)

\* The number getPercentageInput makes of an answer.
PercentageOf(answer) == parseFloat(ReplaceFirstPercent(Trim(answer)))

\* confirmAction: 'y' or 'yes' after toLowerCase and trim.
confirmAction(answer) ==
  Trim(ToLowerCase(answer)) \in {<<"y">>, <<"y", "e", "s">>}

----------------------------------------------------------------------------
(* utils/fileUtils.ts and getMonthlyEvents of index.ts: the monthly cache *)

\* A file of the cache directory: missing, cut short by a write that did
\* not finish, or holding the text of a write that finished.
NoFile == [state |-> "missing"]
CutShort == [state |-> "cut"]
Written(text) == [state |-> "written", text |-> text]

\* The two files of one month, the empty cache directory, and
\* getMonthlyEvents before its first call.
NoEntry == [events |-> NoFile, metadata |-> NoFile]
NoFiles == [key \in {} |-> NoEntry]
NoCall == [outcome |-> "none"]

\* The files of a month: getCacheFilePath and getMetadataFilePath name them
\* by year and month.
EntryAt(files, year, month) ==
  IF <<year, month>> \in DOMAIN files THEN files[<<year, month>>] ELSE NoEntry

WithCacheEntry(files, year, month, entry) ==
  [key \in DOMAIN files \cup {<<year, month>>} |->
     IF key = <<year, month>> THEN entry ELSE files[key]]

\* JSON.stringify of an event array: one object per event, each the list of
\* its members, name and value, in the order of the fields.
EventMembers ==
  <<"amount", "date", "title", "is_bill", "is_transfer", "repeat_type", "repeat_interval">>

StringifyEvent(event) ==
  [i \in DOMAIN EventMembers |-> <<EventMembers[i], event[EventMembers[i]]>>]

Stringify(events) == [i \in DOMAIN events |-> StringifyEvent(events[i])]

\* JSON.parse: every object becomes the record of its members.
MemberOf(object, name) ==
  object[CHOOSE i \in DOMAIN object : object[i][1] = name][2]

ParseEvent(object) ==
  [name \in {object[i][1] : i \in DOMAIN object} |-> MemberOf(object, name)]

Parse(text) == [i \in DOMAIN text |-> ParseEvent(text[i])]

\* The metadata saveCachedEvents writes next to the events.
CacheMetadata(year, month, cachedAt, events) ==
  [year |-> year, month |-> month, cachedAt |-> cachedAt, eventCount |-> Len(events)]

\* The files after the first writeFile of saveCachedEvents has finished.
WithEventsFile(files, year, month, file) ==
  WithCacheEntry(files, year, month,
                 [events |-> file, metadata |-> EntryAt(files, year, month).metadata])

\* The files after its second writeFile has finished.
WithMetadataFile(files, year, month, file) ==
  WithCacheEntry(files, year, month,
                 [events |-> EntryAt(files, year, month).events, metadata |-> file])

\* saveCachedEvents when both writes finish.
saveCachedEvents(files, year, month, cachedAt, events) ==
  WithMetadataFile(WithEventsFile(files, year, month, Written(Stringify(events))),
                   year, month, Written(CacheMetadata(year, month, cachedAt, events)))

\* The most events the service puts in one answer: `per_page: 500`, and the
\* client asks for no second page.
PerPage == 500

\* PocketSmithClient.fetchEvents when the service answers with status 200:
\* the events it holds from start_date to end_date, in its order.
RECURSIVE EventsBetween(_, _, _)
EventsBetween(events, startDate, endDate) ==
  IF events = <<>> THEN <<>>
  ELSE (IF startDate <= Head(events).date /\ Head(events).date <= endDate
        THEN <<Head(events)>> ELSE <<>>)
       \o EventsBetween(Tail(events), startDate, endDate)

FirstPage(events) == SubSeq(events, 1, IF Len(events) < PerPage THEN Len(events) ELSE PerPage)

fetchEvents(remote, startDate, endDate) == FirstPage(EventsBetween(remote, startDate, endDate))

\* PocketSmithClient.fetchMonthlyEvents: from the first day of the month to
\* its endOf('month'), both as the ISO date formatDateForAPI makes of them.
fetchMonthlyEvents(remote, year, month) ==
  fetchEvents(remote, Date(year, month, 1), Date(year, month, DaysInMonth(year, month)))

\* A call of getMonthlyEvents: its arguments, whether it has asked the API,
\* the function it is in and the promise that function awaits, the events
\* it holds, the clock saveCachedEvents read, and what the call before it
\* was and returned.
NotCached == [year |-> 0, month |-> 0]

Summary(call) ==
  IF call.outcome = "none" THEN NoCall
  ELSE [outcome |-> call.outcome, year |-> call.year, month |-> call.month,
        calledApi |-> call.calledApi, events |-> call.events]

CallOf(year, month, forceRefresh, before) ==
  [year |-> year, month |-> month, forceRefresh |-> forceRefresh,
   calledApi |-> forceRefresh, outcome |-> "running",
   within |-> IF forceRefresh THEN "fetchMonthlyEvents" ELSE "loadCachedEvents",
   at |-> IF forceRefresh THEN "get" ELSE "accessEvents",
   events |-> <<>>, cachedAt |-> NotCached, before |-> before]

\* `await client.fetchMonthlyEvents(year, month)` is reached.
Requesting(call) ==
  [call EXCEPT !.calledApi = TRUE, !.within = "fetchMonthlyEvents", !.at = "get"]

\* `return cachedEvents` and `return events`.
Returned(call) == [call EXCEPT !.outcome = "returned", !.within = "", !.at = ""]

\* The error of the API or of saveCachedEvents leaves getMonthlyEvents.
Thrown(call) ==
  [call EXCEPT !.outcome = "threw", !.within = "", !.at = "", !.events = <<>>]

\* A forced call that returned events at cachedAt, as the n-th pass of the
\* loop of fetchDataFromPocketSmith leaves it.
RECURSIVE FetchedCall(_, _, _, _)
FetchedCall(remote, periods, cachedAt, n) ==
  IF n = 0 THEN NoCall
  ELSE [Returned(CallOf(periods[n].year, periods[n].month, TRUE,
                        Summary(FetchedCall(remote, periods, cachedAt, n - 1))))
          EXCEPT !.events = fetchMonthlyEvents(remote, periods[n].year, periods[n].month),
                 !.cachedAt = cachedAt]

\* The cache directory after the loop of fetchDataFromPocketSmith has run
\* over the first n months, every call with forceRefresh and saved at
\* cachedAt.
RECURSIVE SavedUpTo(_, _, _, _, _)
SavedUpTo(files, remote, periods, cachedAt, n) ==
  IF n = 0 THEN files
  ELSE saveCachedEvents(SavedUpTo(files, remote, periods, cachedAt, n - 1),
                        periods[n].year, periods[n].month, cachedAt,
                        fetchMonthlyEvents(remote, periods[n].year, periods[n].month))

----------------------------------------------------------------------------
(* index.ts: getMonthlyEvents, one step for every promise it awaits *)

\* getMonthlyEvents(client, year, month, forceRefresh) is called: with
\* forceRefresh it goes to the request of the API at once, without it to
\* loadCachedEvents and the first fs.access of cacheExists.
getMonthlyEvents(year, month, forceRefresh) ==
  monthlyCall' = CallOf(year, month, forceRefresh, Summary(monthlyCall))

\* The call goes on to its next await.
GoesOn(call) ==
  /\ monthlyCall' = call
  /\ UNCHANGED <<allEvents, lastAction, menu, fetching>>

\* The call returns to its caller: in the loop of fetchDataFromPocketSmith
\* the events are pushed to allEvents and the pause of the loop begins;
\* a call made on its own is over.
Resolves(call) ==
  /\ monthlyCall' = call
  /\ IF menu = "fetching"
     THEN /\ allEvents' = allEvents \o call.events
          /\ fetching' = [fetching EXCEPT !.done = @ + 1]
          /\ lastAction' = "month"
          /\ UNCHANGED menu
     ELSE /\ lastAction' = "events"
          /\ menu' = "choose"
          /\ UNCHANGED <<allEvents, fetching>>

\* The call throws: the error leaves the loop of fetchDataFromPocketSmith
\* before dailySpending is assigned, is logged and thrown on, and the menu
\* catches it.
Throws(call) ==
  /\ monthlyCall' = call
  /\ IF menu = "fetching"
     THEN /\ fetching' = [fetching EXCEPT !.done = 0]
          /\ lastAction' = "fetcherror"
          /\ menu' = "continue"
          /\ UNCHANGED allEvents
     ELSE /\ lastAction' = "eventserror"
          /\ menu' = "choose"
          /\ UNCHANGED <<allEvents, fetching>>

\* cacheExists, `await fs.access(cachePath)`: the events file is there and
\* the metadata file is looked for; or it is missing, cacheExists is false,
\* and loadCachedEvents returns null, so that the API is asked, or
\* getCacheMetadata returns null and the cached events are returned.
AccessEventsFile ==
  /\ monthlyCall.outcome = "running"
  /\ monthlyCall.at = "accessEvents"
  /\ IF EntryAt(cacheFiles, monthlyCall.year, monthlyCall.month).events # NoFile
     THEN GoesOn([monthlyCall EXCEPT !.at = "accessMetadata"])
     ELSE IF monthlyCall.within = "loadCachedEvents"
          THEN GoesOn(Requesting(monthlyCall))
          ELSE Resolves(Returned(monthlyCall))
  /\ UNCHANGED <<now, systemZone, processEnv, remoteEvents, dailySpending,
                 creditCardRepayments, range, monthlyPeriods, headroom, cacheFiles>>

\* AccessMetadataFile with a cacheExists that does not look for the metadata
\* file.
AccessMetadataFileNotLookedFor ==
  /\ monthlyCall.outcome = "running"
  /\ monthlyCall.at = "accessMetadata"
  /\ GoesOn([monthlyCall EXCEPT
               !.at = IF monthlyCall.within = "loadCachedEvents"
                      THEN "readEvents" ELSE "readMetadata"])
  /\ UNCHANGED <<now, systemZone, processEnv, remoteEvents, dailySpending,
                 creditCardRepayments, range, monthlyPeriods, headroom, cacheFiles>>

\* cacheExists, `await fs.access(metadataPath)`: the metadata file is there,
\* whatever it holds, and the file the caller wants is read; or it is
\* missing, as above.
AccessMetadataFile ==
  /\ monthlyCall.outcome = "running"
  /\ monthlyCall.at = "accessMetadata"
  /\ IF EntryAt(cacheFiles, monthlyCall.year, monthlyCall.month).metadata # NoFile
     THEN GoesOn([monthlyCall EXCEPT
                    !.at = IF monthlyCall.within = "loadCachedEvents"
                           THEN "readEvents" ELSE "readMetadata"])
     ELSE IF monthlyCall.within = "loadCachedEvents"
          THEN GoesOn(Requesting(monthlyCall))
          ELSE Resolves(Returned(monthlyCall))
  /\ UNCHANGED <<now, systemZone, processEnv, remoteEvents, dailySpending,
                 creditCardRepayments, range, monthlyPeriods, headroom, cacheFiles>>

\* loadCachedEvents, `await fs.readFile(cachePath)` and JSON.parse: the
\* array of a finished write is what getMonthlyEvents holds as cachedEvents
\* (an array is truthy, also the empty one) and getCacheMetadata is called;
\* on a file cut short JSON.parse throws, the catch returns null and the
\* API is asked.
ReadEventsFile ==
  /\ monthlyCall.outcome = "running"
  /\ monthlyCall.at = "readEvents"
  /\ IF EntryAt(cacheFiles, monthlyCall.year, monthlyCall.month).events.state = "written"
     THEN GoesOn([monthlyCall EXCEPT
                    !.within = "getCacheMetadata",
                    !.at = "accessEvents",
                    !.events = Parse(EntryAt(cacheFiles, monthlyCall.year,
                                             monthlyCall.month).events.text)])
     ELSE GoesOn(Requesting(monthlyCall))
  /\ UNCHANGED <<now, systemZone, processEnv, remoteEvents, dailySpending,
                 creditCardRepayments, range, monthlyPeriods, headroom, cacheFiles>>

\* getCacheMetadata, `await fs.readFile(metadataPath)`: the metadata, or
\* null when it does not parse, is logged and the cached events are
\* returned.
ReadMetadataFile ==
  /\ monthlyCall.outcome = "running"
  /\ monthlyCall.at = "readMetadata"
  /\ Resolves(Returned(monthlyCall))
  /\ UNCHANGED <<now, systemZone, processEnv, remoteEvents, dailySpending,
                 creditCardRepayments, range, monthlyPeriods, headroom, cacheFiles>>

\* `await client.fetchMonthlyEvents(year, month)`: the service answers with
\* the events it holds for the month at that time and saveCachedEvents
\* begins with its mkdir; or the request fails and fetchEvents throws.
FetchMonthlyEvents ==
  /\ monthlyCall.outcome = "running"
  /\ monthlyCall.at = "get"
  /\ \/ GoesOn([monthlyCall EXCEPT
                  !.within = "saveCachedEvents",
                  !.at = "mkdir",
                  !.events = fetchMonthlyEvents(remoteEvents, monthlyCall.year,
                                                monthlyCall.month)])
     \/ Throws(Thrown(monthlyCall))
  /\ UNCHANGED <<now, systemZone, processEnv, remoteEvents, dailySpending,
                 creditCardRepayments, range, monthlyPeriods, headroom, cacheFiles>>

\* saveCachedEvents, `await fs.mkdir(cacheDir, { recursive: true })`: the
\* directory is there and the events file is written; or mkdir fails, and
\* the catch throws the error on.
Mkdir ==
  /\ monthlyCall.outcome = "running"
  /\ monthlyCall.at = "mkdir"
  /\ \/ GoesOn([monthlyCall EXCEPT !.at = "writeEvents"])
     \/ Throws(Thrown(monthlyCall))
  /\ UNCHANGED <<now, systemZone, processEnv, remoteEvents, dailySpending,
                 creditCardRepayments, range, monthlyPeriods, headroom, cacheFiles>>

\* saveCachedEvents, `await fs.writeFile(cachePath, ...)`: the file holds
\* the events, the clock is read for cachedAt and the metadata file is
\* written; or the write fails, before the file was opened or after, and
\* the catch throws the error on.
WriteEventsFile ==
  /\ monthlyCall.outcome = "running"
  /\ monthlyCall.at = "writeEvents"
  /\ \/ /\ cacheFiles' = WithEventsFile(cacheFiles, monthlyCall.year, monthlyCall.month,
                                        Written(Stringify(monthlyCall.events)))
        /\ GoesOn([monthlyCall EXCEPT !.at = "writeMetadata", !.cachedAt = now])
     \/ /\ cacheFiles' \in {cacheFiles,
                            WithEventsFile(cacheFiles, monthlyCall.year,
                                           monthlyCall.month, CutShort)}
        /\ Throws(Thrown(monthlyCall))
  /\ UNCHANGED <<now, systemZone, processEnv, remoteEvents, dailySpending,
                 creditCardRepayments, range, monthlyPeriods, headroom>>

\* saveCachedEvents, `await fs.writeFile(metadataPath, ...)`: the file holds
\* the metadata and getMonthlyEvents returns the events; or the write
\* fails, before the file was opened or after, and the catch throws the
\* error on.
WriteMetadataFile ==
  /\ monthlyCall.outcome = "running"
  /\ monthlyCall.at = "writeMetadata"
  /\ \/ /\ cacheFiles' = WithMetadataFile(cacheFiles, monthlyCall.year, monthlyCall.month,
                                          Written(CacheMetadata(monthlyCall.year,
                                                                monthlyCall.month,
                                                                monthlyCall.cachedAt,
                                                                monthlyCall.events)))
        /\ Resolves(Returned(monthlyCall))
     \/ /\ cacheFiles' \in {cacheFiles,
                            WithMetadataFile(cacheFiles, monthlyCall.year,
                                             monthlyCall.month, CutShort)}
        /\ Throws(Thrown(monthlyCall))
  /\ UNCHANGED <<now, systemZone, processEnv, remoteEvents, dailySpending,
                 creditCardRepayments, range, monthlyPeriods, headroom>>

----------------------------------------------------------------------------
(* index.ts: the menu *)

\* process.env after dotenv.config(): the two variables loadConfig reads,
\* "" for one that is not set or is empty.
Configured == [PS_API_KEY |-> "key", PS_SCENARIO_ID |-> "1"]

Environments ==
  { Configured,
    [PS_API_KEY |-> "", PS_SCENARIO_ID |-> "1"],
    [PS_API_KEY |-> "key", PS_SCENARIO_ID |-> ""] }

\* loadConfig returns the configuration; it throws without a key or a
\* scenario.
loadConfig == processEnv.PS_API_KEY # "" /\ processEnv.PS_SCENARIO_ID # ""

\* initializeApp returns: appConfig was loaded by a call before, or
\* loadConfig returns now (process.env does not change while the program
\* runs).
initializeApp == loadConfig

\* How many times one run of the program chooses 'Fetch the data'.
MaxFetches == 1

\* The events the service holds in the runs of the menu: none, one of the
\* first month of the fiscal year of 2025, and that one with a bill of the
\* second month.
MenuLists == {PickEvents({}), PickEvents({3}), PickEvents({3, 7})}

\* The program after main() has shown the menu for the first time, started
\* in the second month of Clock.
Init ==
  /\ now = Clock[2]
  /\ systemZone = "Pacific/Auckland"
  /\ processEnv \in Environments
  /\ remoteEvents \in MenuLists
  /\ allEvents = <<>>
  /\ dailySpending = EmptyMap
  /\ creditCardRepayments = <<>>
  /\ lastAction = "start"
  /\ range = NoRange
  /\ monthlyPeriods = <<>>
  /\ headroom = NoDialogue
  /\ cacheFiles = NoFiles
  /\ monthlyCall = NoCall
  /\ menu = "choose"
  /\ fetching = NoFetch

\* The choice 'Fetch the data from PocketSmith', and fetchDataFromPocketSmith
\* up to the first await of its loop: the screen is cleared; initializeApp
\* throws, and the menu catches the error, or the months of the current
\* fiscal year are computed, allEvents is emptied and getMonthlyEvents is
\* called with forceRefresh for the first month.
FetchDataFromPocketSmith ==
  /\ menu = "choose"
  /\ fetching.runs < MaxFetches
  /\ creditCardRepayments' = <<>>
  /\ IF initializeApp
     THEN /\ range' = getCurrentNZFinancialYear
          /\ monthlyPeriods' = getMonthlyPeriods(getCurrentNZFinancialYear.start,
                                                 getCurrentNZFinancialYear.end)
          /\ allEvents' = <<>>
          /\ getMonthlyEvents(monthlyPeriods'[1].year, monthlyPeriods'[1].month, TRUE)
          /\ menu' = "fetching"
          /\ lastAction' = "fetching"
     ELSE /\ menu' = "continue"
          /\ lastAction' = "fetcherror"
          /\ UNCHANGED <<range, monthlyPeriods, allEvents, monthlyCall>>
  /\ fetching' = [done |-> 0, runs |-> fetching.runs + 1]
  /\ UNCHANGED <<now, systemZone, processEnv, remoteEvents, dailySpending, headroom,
                 cacheFiles>>

\* The pause of the loop of fetchDataFromPocketSmith is over and a month is
\* left: getMonthlyEvents is called with forceRefresh for it.
FetchMonth ==
  /\ menu = "fetching"
  /\ monthlyCall.outcome = "returned"
  /\ fetching.done < Len(monthlyPeriods)
  /\ getMonthlyEvents(monthlyPeriods[fetching.done + 1].year,
                      monthlyPeriods[fetching.done + 1].month, TRUE)
  /\ lastAction' = "fetching"
  /\ UNCHANGED <<now, systemZone, processEnv, remoteEvents, allEvents, dailySpending,
                 creditCardRepayments, range, monthlyPeriods, headroom, cacheFiles,
                 menu, fetching>>

\* The pause is over and no month is left: dailySpending is built from
\* allEvents, for the fiscal year of the clock at that time, and
\* fetchDataFromPocketSmith returns.
FetchBuildMap ==
  /\ menu = "fetching"
  /\ monthlyCall.outcome = "returned"
  /\ fetching.done = Len(monthlyPeriods)
  /\ dailySpending' = buildDailySpendingMap(allEvents)
  /\ fetching' = [fetching EXCEPT !.done = 0]
  /\ lastAction' = "fetch"
  /\ menu' = "continue"
  /\ UNCHANGED <<now, systemZone, processEnv, remoteEvents, allEvents,
                 creditCardRepayments, range, monthlyPeriods, headroom, cacheFiles,
                 monthlyCall>>

\* The choice 'Show monthly breakdown', showMonthlyBreakdown: the screen is
\* cleared; without data it returns early, else it computes the months of
\* the current fiscal year and the repayment schedule from the two globals
\* and displays them.
ShowMonthlyBreakdown ==
  /\ menu = "choose"
  /\ IF Len(allEvents) = 0
     THEN /\ creditCardRepayments' = <<>>
          /\ lastAction' = "nodata"
          /\ UNCHANGED <<range, monthlyPeriods>>
     ELSE /\ range' = getCurrentNZFinancialYear
          /\ monthlyPeriods' = getMonthlyPeriods(getCurrentNZFinancialYear.start,
                                                 getCurrentNZFinancialYear.end)
          /\ creditCardRepayments' = calculateCreditCardRepayments(dailySpending, allEvents)
          /\ lastAction' = "breakdown"
  /\ menu' = "continue"
  /\ UNCHANGED <<now, systemZone, processEnv, remoteEvents, allEvents, dailySpending,
                 headroom, cacheFiles, monthlyCall, fetching>>

\* The headroom dialogue of updateCreditCardRepayments.  What the user may
\* type at a yes/no prompt: yes in the ways confirmAction takes for it, with
\* white space of several kinds around it, and answers it takes for no,
\* among them a Kelvin sign, whose lower case is 'k', and a capital Y with
\* diaeresis before ES.
ConfirmAnswers ==
  { <<"y">>, <<"Y", "e", "s">>, <<" ", "y", "e", "s", " ">>, <<"Y", "E", "S">>,
    <<"\f", "y">>, <<"U+00A0", "Y", "\t">>,
    <<"n">>, <<>>, <<"y", "e", "p">>, <<"y", " ", "e", "s">>, <<"U+212A">>,
    <<"U+0178", "E", "S">> }

\* What the user may type at the percentage prompt.
PercentageAnswers ==
  { <<"2", "0">>, <<"2", "0", "%">>, <<" ", "1", "5", ".", "5", " ">>,
    <<"-", "5">>, <<"1", "0", "1">>, <<"1", "0", "0">>, <<"0">>,
    <<"a", "b", "c">>, <<>>, <<"%">>, <<"5", "0", "a", "b", "c">>,
    <<"1", "e", "2">>, <<"1", "0", "0", ".", "5">>, <<"-", "0">>,
    <<"I", "n", "f", "i", "n", "i", "t", "y">>, <<"%", " ", "7">>,
    <<".", "5">>, <<"1", "e", "3">>, <<"1", "0", "0", ".", "0", "%">>,
    <<"2", "5", "e", "-", "1">>, <<"-", ".", "1">>, <<"5", ".">>,
    <<"\f", "2", "0">>, <<"U+00A0", "5", "0", "U+2003">>,
    <<"-", "1", "e", "-", "4", "0", "0">>, <<"1", "e", "4", "0", "0">>,
    <<"1", "e", "-", "3", "2", "0">>,
    <<"1", "0", "0", ".", "0", "0", "0", "0", "0", "0", "0", "0", "0", "0", "0",
      "0", "0", "0", "0", "0", "1">>,
    <<"1", "0", "0", ".", "0", "0", "0", "0", "0", "0", "0", "0", "0", "0", "0",
      "0", "1", "4", "2">>,
    <<"-", "I", "n", "f", "i", "n", "i", "t", "y">>, <<"%", "%", "3">> }

\* The number getPercentageInput makes of each of these answers.
Percentages == [answer \in PercentageAnswers |-> PercentageOf(answer)]

\* How many answers the percentage prompt may reject, and how many times
\* the user may decline the percentage shown, in one dialogue.
MaxRejections == 2
MaxRounds == 1

\* applyHeadroomToRepayments: every period's totalSpending multiplied by
\* (1 + percentage / 100), kept as the amount and the percentage; the input
\* is left as it was.
applyHeadroomToRepayments(repayments, percentage) ==
  [i \in DOMAIN repayments |->
     [repayments[i] EXCEPT
        !.totalSpending = [amount |-> @, headroom |-> percentage]]]

\* The scheduled events of the category "Credit Card Repayments", in either
\* spelling of its title.
IsRepaymentEvent(event) == event.title \in {SentinelBreakdown, SentinelDailyMap}

\* The event is dated in the month of a repaymentMonth "YYYY-MM".
IsInMonth(event, repaymentMonth) ==
  /\ YMD(event.date).year = repaymentMonth[1]
  /\ YMD(event.date).month = repaymentMonth[2]

\* findCreditCardRepaymentEvents: the repayment events among events that
\* are dated in one of the repayment months.
RECURSIVE findCreditCardRepaymentEvents(_, _)
findCreditCardRepaymentEvents(events, repaymentMonths) ==
  IF events = <<>> THEN <<>>
  ELSE (IF IsRepaymentEvent(Head(events))
           /\ \E k \in DOMAIN repaymentMonths : IsInMonth(Head(events), repaymentMonths[k])
        THEN <<Head(events)>> ELSE <<>>)
       \o findCreditCardRepaymentEvents(Tail(events), repaymentMonths)

\* `finalRepayments.map(r => r.repaymentMonth)`.
RepaymentMonths(repayments) == [i \in DOMAIN repayments |-> repayments[i].repaymentMonth]

\* The existing events updateCreditCardRepaymentEvents is given.
ExistingEvents(events, repayments) ==
  {findCreditCardRepaymentEvents(events, RepaymentMonths(repayments))[i] :
     i \in DOMAIN findCreditCardRepaymentEvents(events, RepaymentMonths(repayments))}

\* The amount updateEvent is given for an event: that of the repayment of
\* the event's month, kept as the totalSpending it is made of.
RepaymentFor(repayments, event) ==
  [repayment |->
     repayments[CHOOSE i \in DOMAIN repayments :
                  IsInMonth(event, repayments[i].repaymentMonth)].totalSpending]

\* The service after updateEvent has put the new amount on the events in
\* updated; the events of the model differ from one another, so that an
\* event is its own id.
AfterUpdates(remote, repayments, updated) ==
  [i \in DOMAIN remote |->
     IF remote[i] \in updated
     THEN [remote[i] EXCEPT !.amount = RepaymentFor(repayments, remote[i])]
     ELSE remote[i]]

\* The dialogue at its first prompt: `finalRepayments = originalRepayments`,
\* and the locals that are assigned later at the values they are declared
\* with; written are the schedules passed to
\* updateCreditCardRepaymentEvents, put the events updateEvent has changed.
DialogueOf(originalRepayments) ==
  [pc |-> "wantsHeadroom", wantsHeadroom |-> FALSE, percentage |-> Zero,
   rejected |-> 0, rounds |-> 0, adjusted |-> <<>>, final |-> originalRepayments,
   answer |-> <<>>, shouldUpdate |-> FALSE, written |-> <<>>, put |-> {}]

\* The choice 'Update credit card repayments', updateCreditCardRepayments up
\* to its first prompt: the screen is cleared; without data it returns;
\* initializeApp throws, and the menu catches the error (allEvents is only
\* filled by a fetch, after initializeApp has returned, so that in a run
\* of the program it returns here too); with an empty schedule it returns;
\* else the original schedule is displayed.
UpdateCreditCardRepayments ==
  /\ menu = "choose"
  /\ IF Len(allEvents) = 0
     THEN /\ creditCardRepayments' = <<>>
          /\ lastAction' = "nodata"
          /\ menu' = "continue"
          /\ UNCHANGED headroom
     ELSE IF ~initializeApp
     THEN /\ creditCardRepayments' = <<>>
          /\ lastAction' = "updateerror"
          /\ menu' = "continue"
          /\ UNCHANGED headroom
     ELSE /\ creditCardRepayments' = calculateCreditCardRepayments(dailySpending, allEvents)
          /\ lastAction' = "update"
          /\ menu' = IF creditCardRepayments' = <<>> THEN "continue" ELSE "updating"
          /\ headroom' =
               IF creditCardRepayments' = <<>> THEN NoDialogue
               ELSE DialogueOf(creditCardRepayments')
  /\ UNCHANGED <<now, systemZone, processEnv, remoteEvents, allEvents, dailySpending,
                 range, monthlyPeriods, cacheFiles, monthlyCall, fetching>>

\* The answer to 'Do you want to add additional headroom'.
ConfirmHeadroom ==
  /\ menu = "updating"
  /\ headroom.pc = "wantsHeadroom"
  /\ \E answer \in ConfirmAnswers :
       headroom' = [headroom EXCEPT
                      !.wantsHeadroom = confirmAction(answer),
                      !.pc = IF confirmAction(answer) THEN "percentage" ELSE "shouldUpdate"]
  /\ UNCHANGED <<now, systemZone, processEnv, remoteEvents, allEvents, dailySpending,
                 creditCardRepayments, lastAction, range, monthlyPeriods,
                 cacheFiles, monthlyCall, menu, fetching>>

\* An answer the percentage prompt rejects: the question is asked again.
RejectPercentage ==
  /\ menu = "updating"
  /\ headroom.pc = "percentage"
  /\ headroom.rejected < MaxRejections
  /\ \E answer \in PercentageAnswers :
       /\ IsRejected(Percentages[answer])
       /\ headroom' = [headroom EXCEPT !.rejected = @ + 1]
  /\ UNCHANGED <<now, systemZone, processEnv, remoteEvents, allEvents, dailySpending,
                 creditCardRepayments, lastAction, range, monthlyPeriods,
                 cacheFiles, monthlyCall, menu, fetching>>

\* ResolvePercentage applying the percentage to the schedule adjusted in the
\* round before instead of originalRepayments.
ResolvePercentageCompounding ==
  /\ menu = "updating"
  /\ headroom.pc = "percentage"
  /\ \E answer \in PercentageAnswers :
       /\ ~IsRejected(Percentages[answer])
       /\ headroom' = [headroom EXCEPT
                         !.pc = "isHappy",
                         !.percentage = Percentages[answer],
                         !.adjusted = applyHeadroomToRepayments(
                                        IF @ = <<>> THEN creditCardRepayments ELSE @,
                                        Percentages[answer])]
  /\ UNCHANGED <<now, systemZone, processEnv, remoteEvents, allEvents, dailySpending,
                 creditCardRepayments, lastAction, range, monthlyPeriods,
                 cacheFiles, monthlyCall, menu, fetching>>

\* An answer getPercentageInput resolves with: the caller assigns it to
\* headroomPercentage, passes it to applyHeadroomToRepayments with
\* originalRepayments, shows the adjusted schedule and asks whether the
\* user is happy with it.
ResolvePercentage ==
  /\ menu = "updating"
  /\ headroom.pc = "percentage"
  /\ \E answer \in PercentageAnswers :
       /\ ~IsRejected(Percentages[answer])
       /\ headroom' = [headroom EXCEPT
                         !.pc = "isHappy",
                         !.percentage = Percentages[answer],
                         !.adjusted = applyHeadroomToRepayments(
                                        creditCardRepayments, Percentages[answer])]
  /\ UNCHANGED <<now, systemZone, processEnv, remoteEvents, allEvents, dailySpending,
                 creditCardRepayments, lastAction, range, monthlyPeriods,
                 cacheFiles, monthlyCall, menu, fetching>>

\* The answer to 'Are you happy with this headroom percentage': on yes
\* `finalRepayments = adjustedRepayments`, otherwise the loop goes round.
ConfirmHappy ==
  /\ menu = "updating"
  /\ headroom.pc = "isHappy"
  /\ \E answer \in ConfirmAnswers :
       IF confirmAction(answer)
       THEN headroom' = [headroom EXCEPT !.pc = "shouldUpdate",
                                         !.final = headroom.adjusted]
       ELSE /\ headroom.rounds < MaxRounds
            /\ headroom' = [headroom EXCEPT !.pc = "percentage", !.rounds = @ + 1]
  /\ UNCHANGED <<now, systemZone, processEnv, remoteEvents, allEvents, dailySpending,
                 creditCardRepayments, lastAction, range, monthlyPeriods,
                 cacheFiles, monthlyCall, menu, fetching>>

\* ConfirmUpdate calling updateCreditCardRepaymentEvents whatever the answer.
ConfirmUpdateAlwaysWrites ==
  /\ menu = "updating"
  /\ headroom.pc = "shouldUpdate"
  /\ \E answer \in ConfirmAnswers :
       headroom' = [headroom EXCEPT
                      !.pc = "update",
                      !.answer = answer,
                      !.shouldUpdate = confirmAction(answer),
                      !.written = Append(@, headroom.final)]
  /\ UNCHANGED <<now, systemZone, processEnv, remoteEvents, allEvents, dailySpending,
                 creditCardRepayments, lastAction, range, monthlyPeriods,
                 cacheFiles, monthlyCall, menu, fetching>>

\* The answer to 'Do you want to update the planned repayments': on yes
\* updateCreditCardRepaymentEvents is called with finalRepayments and
\* awaited; otherwise 'No changes made' is shown and the action returns to
\* the menu.
ConfirmUpdate ==
  /\ menu = "updating"
  /\ headroom.pc = "shouldUpdate"
  /\ \E answer \in ConfirmAnswers :
       IF confirmAction(answer)
       THEN /\ headroom' = [headroom EXCEPT
                              !.pc = "update",
                              !.answer = answer,
                              !.shouldUpdate = TRUE,
                              !.written = Append(@, headroom.final)]
            /\ UNCHANGED <<lastAction, menu>>
       ELSE /\ headroom' = [headroom EXCEPT !.pc = "done", !.answer = answer]
            /\ lastAction' = "unchanged"
            /\ menu' = "continue"
  /\ UNCHANGED <<now, systemZone, processEnv, remoteEvents, allEvents, dailySpending,
                 creditCardRepayments, range, monthlyPeriods,
                 cacheFiles, monthlyCall, fetching>>

\* `await updateCreditCardRepaymentEvents(...)` is over: updateEvent has put
\* the new amount on some or all of the existing events of the repayment
\* months, and the call returned, and 'update process completed' is shown,
\* or it threw, and the error is logged and thrown on, and the menu catches
\* it.
UpdateCreditCardRepaymentEvents ==
  /\ menu = "updating"
  /\ headroom.pc = "update"
  /\ \E updated \in SUBSET ExistingEvents(allEvents, headroom.final) :
       /\ remoteEvents' = AfterUpdates(remoteEvents, headroom.final, updated)
       /\ headroom' = [headroom EXCEPT !.pc = "done", !.put = updated]
  /\ lastAction' \in {"updated", "updateerror"}
  /\ menu' = "continue"
  /\ UNCHANGED <<now, systemZone, processEnv, allEvents, dailySpending,
                 creditCardRepayments, range, monthlyPeriods,
                 cacheFiles, monthlyCall, fetching>>

\* The choice 'Exit': the screen is cleared and the process ends.
Exit ==
  /\ menu = "choose"
  /\ creditCardRepayments' = <<>>
  /\ lastAction' = "exit"
  /\ menu' = "exited"
  /\ UNCHANGED <<now, systemZone, processEnv, remoteEvents, allEvents, dailySpending,
                 range, monthlyPeriods, headroom, cacheFiles, monthlyCall, fetching>>

\* Enter at 'Press Enter to continue', after an action has returned or the
\* menu has caught its error: showMainMenu runs again, clears the screen
\* and waits for a choice; the locals of the action are gone.
Continue ==
  /\ menu = "continue"
  /\ creditCardRepayments' = <<>>
  /\ headroom' = NoDialogue
  /\ lastAction' = "menu"
  /\ menu' = "choose"
  /\ UNCHANGED <<now, systemZone, processEnv, remoteEvents, allEvents, dailySpending,
                 range, monthlyPeriods, cacheFiles, monthlyCall, fetching>>

\* Time passes to the next month of Clock, while the program waits for the
\* user, for the service, for a file or for its timer.
Tick ==
  /\ \E i \in 1..(Len(Clock) - 1) : now = Clock[i] /\ now' = Clock[i + 1]
  /\ lastAction' = "tick"
  /\ UNCHANGED <<systemZone, processEnv, remoteEvents, allEvents, dailySpending,
                 creditCardRepayments, range, monthlyPeriods, headroom,
                 cacheFiles, monthlyCall, menu, fetching>>

\* The program: getMonthlyEvents is only called with forceRefresh, so that
\* of its steps those of the request and of saveCachedEvents are taken.
Next ==
  \/ FetchDataFromPocketSmith
  \/ FetchMonthlyEvents
  \/ Mkdir
  \/ WriteEventsFile
  \/ WriteMetadataFile
  \/ FetchMonth
  \/ FetchBuildMap
  \/ ShowMonthlyBreakdown
  \/ UpdateCreditCardRepayments
  \/ ConfirmHeadroom
  \/ RejectPercentage
  \/ ResolvePercentage
  \/ ConfirmHappy
  \/ ConfirmUpdate
  \/ UpdateCreditCardRepaymentEvents
  \/ Exit
  \/ Continue
  \/ Tick

Spec == Init /\ [][Next]_vars

----------------------------------------------------------------------------
(* buildDailySpendingMap and calculateCreditCardRepayments on their own *)

\* buildDailySpendingMap applied to the event list, once.
BuildDailySpendingMap ==
  /\ dailySpending = EmptyMap
  /\ dailySpending' = buildDailySpendingMap(allEvents)
  /\ lastAction' = "map"
  /\ UNCHANGED <<now, systemZone, processEnv, remoteEvents, allEvents, creditCardRepayments,
                 range, monthlyPeriods, headroom, cacheFiles, monthlyCall,
                 menu, fetching>>

\* calculateCreditCardRepayments applied to the map and the event list, at
\* the time of the clock.
CalculateCreditCardRepayments ==
  /\ lastAction # "repayments"
  /\ creditCardRepayments' = calculateCreditCardRepayments(dailySpending, allEvents)
  /\ lastAction' = "repayments"
  /\ UNCHANGED <<now, systemZone, processEnv, remoteEvents, allEvents, dailySpending,
                 range, monthlyPeriods, headroom,
                 cacheFiles, monthlyCall, menu, fetching>>

\* The two functions over any event list, the second on the map the first
\* made of the same list, in the same month or a later one.
NextEngine ==
  \/ BuildDailySpendingMap
  \/ CalculateCreditCardRepayments
  \/ Tick

InitEngine ==
  /\ now \in {Clock[i] : i \in 1..Len(Clock)}
  /\ systemZone \in SystemZones
  /\ processEnv = Configured
  /\ remoteEvents = <<>>
  /\ allEvents \in EventLists
  /\ dailySpending = EmptyMap
  /\ creditCardRepayments = <<>>
  /\ lastAction = "start"
  /\ range = NoRange
  /\ monthlyPeriods = <<>>
  /\ headroom = NoDialogue
  /\ cacheFiles = NoFiles
  /\ monthlyCall = NoCall
  /\ menu = "choose"
  /\ fetching = NoFetch

SpecEngine == InitEngine /\ [][NextEngine]_vars

\* calculateCreditCardRepayments takes any daily map.  The maps here are
\* runs of consecutive days, as buildDailySpendingMap makes them, that start
\* and end on the days around the 2nd and the 3rd and around the turn of the
\* year.
MapStarts ==
  {Date(2025, 4, 1), Date(2025, 11, 3), Date(2025, 11, 4), Date(2025, 12, 3),
   Date(2025, 12, 4), Date(2025, 12, 20), Date(2026, 1, 2)}
MapEnds ==
  {Date(2025, 12, 25), Date(2026, 1, 2), Date(2026, 1, 3), Date(2026, 2, 1),
   Date(2026, 2, 2), Date(2026, 2, 3), Date(2026, 3, 31)}
DailyRates == {0, 5}

InitPeriods ==
  /\ now \in {Clock[i] : i \in 1..Len(Clock)}
  /\ systemZone \in SystemZones
  /\ processEnv = Configured
  /\ remoteEvents = <<>>
  /\ allEvents = <<>>
  /\ \E lo \in MapStarts, hi \in MapEnds, rate \in DailyRates :
       lo <= hi /\ dailySpending = [k \in lo..hi |-> Plain(rate)]
  /\ creditCardRepayments = <<>>
  /\ lastAction = "start"
  /\ range = NoRange
  /\ monthlyPeriods = <<>>
  /\ headroom = NoDialogue
  /\ cacheFiles = NoFiles
  /\ monthlyCall = NoCall
  /\ menu = "choose"
  /\ fetching = NoFetch

NextPeriods == CalculateCreditCardRepayments

SpecPeriods == InitPeriods /\ [][NextPeriods]_vars

\* The same functions over events at the edges of the rules: bills on the
\* first and the last day of a billing cycle, a bill of amount 0, events
\* spread over several months, an event on the last day of the fiscal year
\* and events whose repeat_type is neither 'monthly' nor 'yearly'.
CornerCatalogue ==
  << Event(-150, Date(2025, 4, 3), "Power", TRUE, FALSE, "monthly", 1),
     Event(0, Date(2025, 4, 20), "Fees", TRUE, FALSE, "monthly", 1),
     Event(-120, Date(2025, 5, 2), "Power", TRUE, FALSE, "monthly", 1),
     Event(-600, Date(2025, 5, 20), "Groceries", FALSE, FALSE, "monthly", 2),
     Event(-60, Date(2025, 12, 20), "Power", FALSE, FALSE, "weekly", 2),
     Event(-900, Date(2026, 2, 10), "Groceries", FALSE, FALSE, "monthly", 3),
     Event(-70, Date(2026, 3, 5), "Fees", FALSE, FALSE, "once", 1),
     Event(-310, Date(2026, 3, 31), "Rent", FALSE, FALSE, "monthly", 1) >>

\* At most MaxEvents events of the corner catalogue, in catalogue order.
CornerLists ==
  {[k \in DOMAIN picked |-> CornerCatalogue[picked[k]]] :
     picked \in {p \in UNION {[1..n -> 1..Len(CornerCatalogue)] : n \in 0..MaxEvents} :
                   \A a, b \in DOMAIN p : a < b => p[a] < p[b]}}

InitCorners ==
  /\ now \in {Clock[i] : i \in 1..Len(Clock)}
  /\ systemZone \in SystemZones
  /\ processEnv = Configured
  /\ remoteEvents = <<>>
  /\ allEvents \in CornerLists
  /\ dailySpending = EmptyMap
  /\ creditCardRepayments = <<>>
  /\ lastAction = "start"
  /\ range = NoRange
  /\ monthlyPeriods = <<>>
  /\ headroom = NoDialogue
  /\ cacheFiles = NoFiles
  /\ monthlyCall = NoCall
  /\ menu = "choose"
  /\ fetching = NoFetch

SpecCorners == InitCorners /\ [][NextEngine]_vars

\* Events of one category that meet in the billing period from 2025-04-03:
\* two recurring amounts spread over spans of 30 and 61 days and a bill
\* between them, and a bill of another category.
MixCatalogue ==
  << Event(-100, Date(2025, 4, 15), "Groceries", FALSE, FALSE, "monthly", 1),
     Event(-150, Date(2025, 4, 20), "Groceries", TRUE, FALSE, "monthly", 1),
     Event(-100, Date(2025, 4, 25), "Groceries", FALSE, FALSE, "monthly", 2),
     Event(-80, Date(2025, 5, 1), "Power", TRUE, FALSE, "monthly", 1) >>

\* The most events of a list over the mix catalogue.
MaxMixed == 3

\* At most MaxMixed different events of the mix catalogue, in any order.
MixLists ==
  {[k \in DOMAIN picked |-> MixCatalogue[picked[k]]] :
     picked \in {p \in UNION {[1..n -> 1..Len(MixCatalogue)] : n \in 0..MaxMixed} :
                   \A a, b \in DOMAIN p : a # b => p[a] # p[b]}}

InitMixes ==
  /\ now \in {Clock[i] : i \in 1..Len(Clock)}
  /\ systemZone \in SystemZones
  /\ processEnv = Configured
  /\ remoteEvents = <<>>
  /\ allEvents \in MixLists
  /\ dailySpending = EmptyMap
  /\ creditCardRepayments = <<>>
  /\ lastAction = "start"
  /\ range = NoRange
  /\ monthlyPeriods = <<>>
  /\ headroom = NoDialogue
  /\ cacheFiles = NoFiles
  /\ monthlyCall = NoCall
  /\ menu = "choose"
  /\ fetching = NoFetch

SpecMixes == InitMixes /\ [][NextEngine]_vars

\* getMonthlyEvents on its own, with and without forceRefresh, and then in
\* the loop of a fetch, over a cache directory in any state its own writes
\* can leave, while the events of the service change between and during the
\* calls.  The months called for on its own are the first of the fiscal
\* year the program starts in.
CacheMonths == {1, 2}

CachePeriods ==
  getMonthlyPeriods(FinancialYearFrom(Clock[1].year).start,
                    FinancialYearFrom(Clock[1].year).end)

CacheRemotes ==
  {PickEvents(picked) : picked \in {p \in SUBSET {3, 7} : Cardinality(p) <= MaxEvents}}

InitCache ==
  /\ now = Clock[1]
  /\ systemZone = "Pacific/Auckland"
  /\ processEnv = Configured
  /\ remoteEvents \in CacheRemotes
  /\ allEvents = <<>>
  /\ dailySpending = EmptyMap
  /\ creditCardRepayments = <<>>
  /\ lastAction = "start"
  /\ range = NoRange
  /\ monthlyPeriods = <<>>
  /\ headroom = NoDialogue
  /\ cacheFiles = NoFiles
  /\ monthlyCall = NoCall
  /\ menu = "choose"
  /\ fetching = NoFetch

\* getMonthlyEvents is called before the fetch, and runs to its first
\* await.
GetMonthlyEvents ==
  /\ menu = "choose"
  /\ fetching.runs = 0
  /\ \E i \in CacheMonths, forceRefresh \in BOOLEAN :
       getMonthlyEvents(CachePeriods[i].year, CachePeriods[i].month, forceRefresh)
  /\ lastAction' = "calling"
  /\ menu' = "calling"
  /\ UNCHANGED <<now, systemZone, processEnv, remoteEvents, allEvents, dailySpending,
                 creditCardRepayments, range, monthlyPeriods, headroom, cacheFiles,
                 fetching>>

\* The events of the service change.
RemoteChanges ==
  /\ remoteEvents' \in CacheRemotes \ {remoteEvents}
  /\ UNCHANGED <<now, systemZone, processEnv, allEvents, dailySpending,
                 creditCardRepayments, lastAction, range, monthlyPeriods, headroom,
                 cacheFiles, monthlyCall, menu, fetching>>

NextCache ==
  \/ GetMonthlyEvents
  \/ AccessEventsFile
  \/ AccessMetadataFile
  \/ ReadEventsFile
  \/ ReadMetadataFile
  \/ FetchMonthlyEvents
  \/ Mkdir
  \/ WriteEventsFile
  \/ WriteMetadataFile
  \/ RemoteChanges
  \/ FetchDataFromPocketSmith
  \/ FetchMonth
  \/ FetchBuildMap

SpecCache == InitCache /\ [][NextCache]_vars

\* getMonthlyPeriods on its own, for any start <= end: the days and the times
\* of day a range may begin or end at, and the longest range in months.
RangeDays ==
  {Date(2025, 4, 1), Date(2025, 4, 15), Date(2025, 4, 30), Date(2025, 5, 1),
   Date(2025, 12, 31), Date(2026, 1, 1), Date(2026, 2, 28), Date(2026, 3, 31),
   Date(2026, 4, 1), Date(2027, 1, 31), Date(2028, 2, 29)}
RangeTimes == {0, 12 * 60 * 60 * 1000, MsPerDay - 1}
MaxRangeMonths == 12

\* The number of calendar months touched by [start, end].
MonthsTouched(start, end) ==
  (YMD(end.ord).year * 12 + YMD(end.ord).month)
  - (YMD(start.ord).year * 12 + YMD(start.ord).month) + 1

InitMonths ==
  /\ now = Clock[1]
  /\ systemZone = "Pacific/Auckland"
  /\ processEnv = Configured
  /\ remoteEvents = <<>>
  /\ allEvents = <<>>
  /\ dailySpending = EmptyMap
  /\ creditCardRepayments = <<>>
  /\ lastAction = "start"
  /\ \E d1 \in RangeDays, d2 \in RangeDays, t1 \in RangeTimes, t2 \in RangeTimes :
       /\ DTLeq(DT(d1, t1), DT(d2, t2))
       /\ MonthsTouched(DT(d1, t1), DT(d2, t2)) <= MaxRangeMonths
       /\ range = [start |-> DT(d1, t1), end |-> DT(d2, t2)]
  /\ monthlyPeriods = <<>>
  /\ headroom = NoDialogue
  /\ cacheFiles = NoFiles
  /\ monthlyCall = NoCall
  /\ menu = "choose"
  /\ fetching = NoFetch

GetMonthlyPeriods ==
  /\ lastAction = "start"
  /\ monthlyPeriods' = getMonthlyPeriods(range.start, range.end)
  /\ lastAction' = "months"
  /\ UNCHANGED <<now, systemZone, processEnv, remoteEvents, allEvents, dailySpending,
                 creditCardRepayments, range, headroom,
                 cacheFiles, monthlyCall, menu, fetching>>

NextMonths == GetMonthlyPeriods

SpecMonths == InitMonths /\ [][NextMonths]_vars

\* A scheduled repayment of the second last month of the fiscal year the
\* program starts in.
RepaymentEvent ==
  Event(-400, Date(2026, 2, 20), SentinelBreakdown, TRUE, FALSE, "monthly", 1)

\* allEvents after the loop of fetchDataFromPocketSmith has run over the
\* first n months.
RECURSIVE FetchedUpTo(_, _, _)
FetchedUpTo(remote, periods, n) ==
  IF n = 0 THEN <<>>
  ELSE FetchedUpTo(remote, periods, n - 1)
       \o fetchMonthlyEvents(remote, periods[n].year, periods[n].month)

\* updateCreditCardRepayments on its own: the menu waits for a choice after
\* a fetch in the fiscal year of the first clock month, in that month or
\* later, with or without events loaded.
InitHeadroom ==
  /\ now \in {Clock[i] : i \in 1..Len(Clock)}
  /\ systemZone = "Pacific/Auckland"
  /\ processEnv = Configured
  /\ remoteEvents \in {<<>>, <<EventCatalogue[3], RepaymentEvent>>}
  /\ range = FinancialYearFrom(Clock[1].year)
  /\ monthlyPeriods = getMonthlyPeriods(range.start, range.end)
  /\ allEvents = FetchedUpTo(remoteEvents, monthlyPeriods, Len(monthlyPeriods))
  /\ dailySpending = BuildFor(range, allEvents)
  /\ creditCardRepayments = <<>>
  /\ lastAction = "menu"
  /\ headroom = NoDialogue
  /\ cacheFiles = SavedUpTo(NoFiles, remoteEvents, monthlyPeriods, Clock[1],
                            Len(monthlyPeriods))
  /\ monthlyCall = FetchedCall(remoteEvents, monthlyPeriods, Clock[1], Len(monthlyPeriods))
  /\ menu = "choose"
  /\ fetching = [done |-> 0, runs |-> 1]

NextHeadroom ==
  \/ UpdateCreditCardRepayments
  \/ ConfirmHeadroom
  \/ RejectPercentage
  \/ ResolvePercentage
  \/ ConfirmHappy
  \/ ConfirmUpdate
  \/ UpdateCreditCardRepaymentEvents

SpecHeadroom == InitHeadroom /\ [][NextHeadroom]_vars

----------------------------------------------------------------------------
(* What the properties below speak about *)

\* The calendar days of the current fiscal year, April 1 to March 31.
FiscalYearStartYear == IF now.month < 4 THEN now.year - 1 ELSE now.year
FiscalYearDays ==
  {o \in 0..MaxOrd :
     \/ YMD(o).year = FiscalYearStartYear /\ YMD(o).month >= 4
     \/ YMD(o).year = FiscalYearStartYear + 1 /\ YMD(o).month <= 3}
DaysInFiscalYear == Cardinality(FiscalYearDays)

\* The number a / n for a whole number of days n.
Quotient(a, n) == NumDiv(Plain(a), Plain(n))

\* A non-bill event the map builder prorates: neither a transfer nor in the
\* excluded category, anchored on a day of the fiscal year.
IsProratedInFiscalYear(e) ==
  /\ ~e.is_transfer /\ e.title # SentinelDailyMap /\ ~e.is_bill
  /\ e.date \in FiscalYearDays

AnchorMonthDays(e) ==
  LET c == YMD(e.date)
  IN  Ord(c.year, c.month, 1)..Ord(c.year, c.month, DaysInMonth(c.year, c.month))

\* The un-clipped span of a monthly event lies inside the fiscal year.
IsUnclipped(e) ==
  LET start0 == StartOfMonth(DT(e.date, 0))
      end0 == PlusDays(PlusMonths(start0, e.repeat_interval), -1)
  IN  start0.ord \in FiscalYearDays /\ end0.ord \in FiscalYearDays

----------------------------------------------------------------------------
(* Properties *)

\* C1: for a non-bill monthly event with repeat_interval 1 anchored inside the
\* fiscal year, dailyAmount * daysInMonth(anchor month) = abs(amount), and
\* the map built from that event alone has abs(amount) / daysInMonth on every
\* day of the anchor month and 0 on every other day.
C1_MonthlyRateTimesMonthDaysIsAmount ==
  lastAction = "map" =>
    \A i \in 1..Len(allEvents) :
      LET e == allEvents[i]
          fy == getCurrentNZFinancialYear
          p == calculateProratedSpending(e, SetZoneAuckland(FromISO(e.date)),
                                         fy.start, fy.end)
          daysInMonth == Cardinality(AnchorMonthDays(e))
      IN  (IsProratedInFiscalYear(e) /\ e.repeat_type = "monthly"
           /\ e.repeat_interval = 1 /\ e.amount # 0)
          => /\ NumEq(NumMul(p.dailyAmount, Plain(daysInMonth)), Plain(Abs(e.amount)))
             /\ Len(allEvents) = 1 =>
                  \A k \in DOMAIN dailySpending :
                    NumEq(dailySpending[k],
                          IF k \in AnchorMonthDays(e)
                          THEN Quotient(Abs(e.amount), daysInMonth) ELSE Zero)

\* C2: for every yearly event the prorated span is the whole fiscal year and
\* dailyAmount * daysInFiscalYear = abs(amount), in the daily-map path and in
\* the category-breakdown path.
C2_YearlyRateTimesYearDaysIsAmount ==
  \A i \in 1..Len(allEvents) :
    LET e == allEvents[i]
        fy == getCurrentNZFinancialYear
        eventDate == SetZoneAuckland(FromISO(e.date))
        inMap == calculateProratedSpending(e, eventDate, fy.start, fy.end)
        inBreakdown == calculateEventProratedPeriod(e, eventDate)
    IN  e.repeat_type = "yearly"
        => /\ DayKeys(inMap.startDate, inMap.endDate) = FiscalYearDays
           /\ DayKeys(inBreakdown.startDate, inBreakdown.endDate) = FiscalYearDays
           /\ NumEq(NumMul(inMap.dailyAmount, Plain(DaysInFiscalYear)),
                    Plain(Abs(e.amount)))
           /\ NumEq(NumMul(inBreakdown.dailyAmount, Plain(DaysInFiscalYear)),
                    Plain(Abs(e.amount)))

\* C3: the map buildDailySpendingMap returns has exactly the calendar days of
\* the current fiscal year as keys, every value is >= 0, and with no events
\* every value is 0.
C3_MapKeysAreTheFiscalYear ==
  lastAction = "map" =>
    /\ DOMAIN dailySpending = FiscalYearDays
    /\ \A k \in DOMAIN dailySpending : NumNonNegative(dailySpending[k])
    /\ allEvents = <<>> => \A k \in DOMAIN dailySpending : dailySpending[k] = Zero

\* A map was built from a multi-month event clipped at the end of the fiscal
\* year together with an event dated outside the fiscal year.
C3_Witness ==
  /\ lastAction = "map"
  /\ \E i \in 1..Len(allEvents) :
       /\ IsProratedInFiscalYear(allEvents[i])
       /\ allEvents[i].repeat_interval > 1
       /\ ~IsUnclipped(allEvents[i])
       /\ dailySpending[allEvents[i].date] # Zero
  /\ \E j \in 1..Len(allEvents) : allEvents[j].date \notin FiscalYearDays

\* C4: the repaymentMonth of every emitted billing period is the calendar
\* month after the month of its periodEnd, December rolling over to January.
C4_RepaymentMonthFollowsPeriodEnd ==
  lastAction = "repayments" =>
    \A i \in 1..Len(creditCardRepayments) :
      LET period == creditCardRepayments[i]
          endsIn == YMD(period.periodEnd.ord)
          after == IF endsIn.month = 12 THEN <<endsIn.year + 1, 1>>
                   ELSE <<endsIn.year, endsIn.month + 1>>
      IN  period.repaymentMonth = after

\* C5: every period calculateCreditCardRepayments emits is covered by the
\* daily map: periodStart (a 3rd) is not before the earliest key, periodEnd (a
\* 2nd) is not after the latest key, every day of the period is a key; and
\* the first candidate cycle starts on the first 3rd that is not before the
\* earliest key (in the following month when the earliest key is after the
\* 3rd, December advancing to January of the next year).
C5_PeriodsAreCoveredByTheMap ==
  lastAction = "repayments" =>
    LET earliest == CHOOSE k \in DOMAIN dailySpending : \A j \in DOMAIN dailySpending : k <= j
        latest == CHOOSE k \in DOMAIN dailySpending : \A j \in DOMAIN dailySpending : j <= k
        first == YMD(earliest)
        firstCycle ==
          IF first.day <= 3 THEN Ord(first.year, first.month, 3)
          ELSE IF first.month = 12 THEN Ord(first.year + 1, 1, 3)
          ELSE Ord(first.year, first.month + 1, 3)
        firstCycleEnd == YMD(firstCycle + 31)
        firstCycleEndsOn == Ord(firstCycleEnd.year, firstCycleEnd.month, 2)
    IN  /\ \A i \in 1..Len(creditCardRepayments) :
             LET period == creditCardRepayments[i]
             IN  /\ YMD(period.periodStart.ord).day = 3
                 /\ YMD(period.periodEnd.ord).day = 2
                 /\ earliest <= period.periodStart.ord
                 /\ firstCycle <= period.periodStart.ord
                 /\ period.periodEnd.ord <= latest
                 /\ \A d \in period.periodStart.ord..period.periodEnd.ord :
                      d \in DOMAIN dailySpending
        /\ (/\ firstCycleEndsOn < latest
            /\ <<now.year, now.month>> = <<Clock[1].year, Clock[1].month>>)
           => /\ creditCardRepayments # <<>>
              /\ Head(creditCardRepayments).periodStart.ord = firstCycle

\* C6: the emitted periods are in chronological order, contiguous and
\* non-overlapping: each period starts the day after the period before it
\* ends, and no day belongs to two periods, also after the repayment-month
\* filter has removed periods.
C6_PeriodsAreContiguous ==
  lastAction = "repayments" =>
    /\ \A i \in 1..Len(creditCardRepayments) :
         creditCardRepayments[i].periodStart.ord <= creditCardRepayments[i].periodEnd.ord
    /\ \A i \in 1..(Len(creditCardRepayments) - 1) :
         /\ creditCardRepayments[i + 1].periodStart.ord
              = creditCardRepayments[i].periodEnd.ord + 1
         /\ DTLess(creditCardRepayments[i].periodEnd, creditCardRepayments[i + 1].periodStart)
    /\ \A i, j \in 1..Len(creditCardRepayments) :
         i < j => creditCardRepayments[i].periodEnd.ord < creditCardRepayments[j].periodStart.ord

\* The filter removed the first cycles of the fiscal year and the remaining
\* periods run over the turn of the year.
C6_Witness ==
  /\ lastAction = "repayments"
  /\ Len(creditCardRepayments) >= 2
  /\ Head(creditCardRepayments).periodStart.ord > EarliestKey(dailySpending) + 31
  /\ \E i \in 1..Len(creditCardRepayments) :
       YMD(creditCardRepayments[i].periodStart.ord).year
         < YMD(creditCardRepayments[i].periodEnd.ord).year

\* C7: a period is emitted only if its repayment month, compared as year and
\* month, is the current month in Pacific/Auckland or later.
C7_RepaymentMonthNotBeforeNow ==
  lastAction = "repayments" =>
    \A i \in 1..Len(creditCardRepayments) :
      LET repayment == creditCardRepayments[i].repaymentMonth
      IN  \/ repayment[1] > now.year
          \/ repayment[1] = now.year /\ repayment[2] >= now.month

\* In January the first emitted period is the one repaid in January, whose
\* cycle started in December of the year before.
C7_Witness ==
  /\ lastAction = "repayments"
  /\ now.month = 1
  /\ creditCardRepayments # <<>>
  /\ Head(creditCardRepayments).repaymentMonth = <<now.year, 1>>
  /\ YMD(Head(creditCardRepayments).periodStart.ord).year = now.year - 1

\* The sum of the map's values over the days lo..hi, added day after day
\* as SumDays adds them, four weeks at a time.
RECURSIVE TotalOverDays(_, _, _, _)
TotalOverDays(map, lo, hi, total) ==
  IF hi - lo < 28 THEN SumDays(map, lo, hi, total)
  ELSE IF total = Zero
  THEN TotalOverDays(map, lo + 28, hi, SumDays(map, lo, lo + 27, Zero))
  ELSE TotalOverDays(map, lo + 28, hi, SumDays(map, lo, lo + 27, total))

\* C8: the total a single non-bill monthly event adds to the map never
\* exceeds abs(amount), equals abs(amount) when the un-clipped span lies
\* inside the fiscal year, and is less only when the span was clipped.
C8_MonthlyEventTotalIsAmountUnlessClipped ==
  (lastAction = "map" /\ Len(allEvents) = 1) =>
    LET e == allEvents[1]
        total == TotalOverDays(dailySpending, EarliestKey(dailySpending),
                               LatestKey(dailySpending), Zero)
    IN  (IsProratedInFiscalYear(e) /\ e.repeat_type = "monthly")
        => /\ NumLeq(total, Plain(Abs(e.amount)))
           /\ IsUnclipped(e) => NumEq(total, Plain(Abs(e.amount)))
           /\ NumLess(total, Plain(Abs(e.amount))) => ~IsUnclipped(e)

\* An event touches a period: a bill dated on a day of it, a non-bill event
\* whose prorated span has a day in it.
TouchesPeriod(e, period) ==
  /\ ~e.is_transfer /\ e.title # SentinelBreakdown
  /\ LET span == calculateEventProratedPeriod(e, SetZoneAuckland(FromISO(e.date)))
         days == period.periodStart.ord..period.periodEnd.ord
     IN  IF e.is_bill THEN e.date \in days
         ELSE DayKeys(span.startDate, span.endDate) \cap days # {}

RECURSIVE SumAbsAmounts(_, _)
SumAbsAmounts(events, period) ==
  IF events = <<>> THEN 0
  ELSE (IF TouchesPeriod(Head(events), period) THEN Abs(Head(events).amount) ELSE 0)
       + SumAbsAmounts(Tail(events), period)

RECURSIVE SumTotalAmounts(_)
SumTotalAmounts(entries) ==
  IF entries = <<>> THEN Zero
  ELSE NumAdd(Head(entries).totalAmount, SumTotalAmounts(Tail(entries)))

RECURSIVE SumBillAmounts(_)
SumBillAmounts(bills) ==
  IF bills = <<>> THEN 0 ELSE Head(bills).amount + SumBillAmounts(Tail(bills))

\* C9: in every period each category entry has totalAmount >= 0 and
\* proratedAmount >= 0, the totalAmounts sum to at most the sum of
\* abs(amount) of the non-excluded events touching the period, and a single
\* non-bill event contributes at most abs(amount) to the period.
C9_BreakdownBoundedByAmounts ==
  lastAction = "repayments" =>
    \A i \in 1..Len(creditCardRepayments) :
      LET period == creditCardRepayments[i]
          entries == period.categoryBreakdown
      IN  /\ \A c \in 1..Len(entries) :
               /\ NumNonNegative(entries[c].totalAmount)
               /\ NumNonNegative(entries[c].proratedAmount)
          /\ NumLeq(SumTotalAmounts(entries), Plain(SumAbsAmounts(allEvents, period)))
          /\ \A j \in 1..Len(allEvents) :
               ~allEvents[j].is_bill =>
                 NumLeq(calculateProratedAmountForPeriod(
                          allEvents[j], period.periodStart, period.periodEnd),
                        Plain(Abs(allEvents[j].amount)))

\* What a category entry's parts add up to: proratedAmount + the sum of its
\* bills' amounts.
PartsOf(entry) == NumAdd(entry.proratedAmount, Plain(SumBillAmounts(entry.bills)))

\* C10: every returned category entry has totalAmount = proratedAmount + the
\* sum of its bills' amounts, and no returned entry has totalAmount 0.
C10_TotalIsProratedPlusBills ==
  lastAction = "repayments" =>
    \A i \in 1..Len(creditCardRepayments) :
      LET entries == creditCardRepayments[i].categoryBreakdown
      IN  \A c \in 1..Len(entries) :
            /\ NumEq(entries[c].totalAmount, PartsOf(entries[c]))
            /\ ~NumEq(entries[c].totalAmount, Zero)

\* The rounding the sums of a few amounts may differ by: 2^-50 of the total.
RoundingOf(total) ==
  NumMul(total, NumDiv(Plain(1), NumMul(Plain(2 ^ 25), Plain(2 ^ 25))))

\* C10, up to rounding: every returned category entry has a totalAmount
\* within 2^-50 of itself of proratedAmount + the sum of its bills' amounts,
\* and a totalAmount above 0.
C10_TotalIsProratedPlusBillsUpToRounding ==
  lastAction = "repayments" =>
    \A i \in 1..Len(creditCardRepayments) :
      LET entries == creditCardRepayments[i].categoryBreakdown
      IN  \A c \in 1..Len(entries) :
            /\ NumLeq(NumSub(entries[c].totalAmount, PartsOf(entries[c])),
                      RoundingOf(entries[c].totalAmount))
            /\ NumLeq(NumSub(PartsOf(entries[c]), entries[c].totalAmount),
                      RoundingOf(entries[c].totalAmount))
            /\ NumPositive(entries[c].totalAmount)

\* A category entry holds a bill and a prorated amount, and its total is
\* not the double its parts add up to.
C10_Witness ==
  /\ lastAction = "repayments"
  /\ \E i \in 1..Len(creditCardRepayments) :
       LET entries == creditCardRepayments[i].categoryBreakdown
       IN  \E c \in 1..Len(entries) :
             /\ Len(entries[c].bills) >= 1
             /\ NumPositive(entries[c].proratedAmount)
             /\ ~NumEq(entries[c].totalAmount, PartsOf(entries[c]))

\* The events the breakdown skips: transfers and the category that holds the
\* repayments themselves.
IsExcludedEvent(event) == event.is_transfer \/ event.title = SentinelBreakdown

WithoutExcluded(events) == SelectSeq(events, LAMBDA e : ~IsExcludedEvent(e))

\* C11: a transfer or an event of the Credit Card Repayments category
\* contributes nothing on either path: the daily map and every period's
\* categoryBreakdown are those of the input without such events.
C11_ExcludedEventsContributeNothing ==
  /\ lastAction = "map" =>
       dailySpending = buildDailySpendingMap(WithoutExcluded(allEvents))
  /\ lastAction = "repayments" =>
       \A i \in 1..Len(creditCardRepayments) :
         creditCardRepayments[i].categoryBreakdown =
           calculateCategoryBreakdown(WithoutExcluded(allEvents),
                                      creditCardRepayments[i].periodStart,
                                      creditCardRepayments[i].periodEnd)

\* The divisor totalDays of a proration result.
TotalDaysOf(p) == TotalDays(p.startDate, p.endDate)

\* The events buildDailySpendingMap hands to calculateProratedSpending.
IsProratedByMap(event, eventDate, fyStart, fyEnd) ==
  /\ ~event.is_transfer
  /\ event.title # SentinelDailyMap
  /\ ~DTLess(eventDate, StartOfDay(fyStart))
  /\ ~DTLess(StartOfDay(fyEnd), eventDate)
  /\ ~event.is_bill

\* C13: in every call of the proration step, on the daily-map path and on
\* the category-breakdown path, the divisor totalDays is at least 1.
C13_TotalDaysAtLeastOne ==
  /\ lastAction = "map" =>
       \A j \in 1..Len(allEvents) :
         IsProratedByMap(allEvents[j], SetZoneAuckland(FromISO(allEvents[j].date)),
                         getCurrentNZFinancialYear.start, getCurrentNZFinancialYear.end) =>
           NumLeq(Plain(1),
                  TotalDaysOf(calculateProratedSpending(
                    allEvents[j], SetZoneAuckland(FromISO(allEvents[j].date)),
                    getCurrentNZFinancialYear.start, getCurrentNZFinancialYear.end)))
  /\ (lastAction = "repayments" /\ creditCardRepayments # <<>>) =>
       \A j \in 1..Len(allEvents) :
         (~IsExcludedEvent(allEvents[j]) /\ ~allEvents[j].is_bill) =>
           NumLeq(Plain(1),
                  TotalDaysOf(calculateEventProratedPeriod(
                    allEvents[j], SetZoneAuckland(FromISO(allEvents[j].date)))))

\* C19: for every emitted period the two paths attribute the same amount:
\* the totalAmounts of the categoryBreakdown sum to the totalSpending read
\* from the daily map.
C19_BreakdownSumsToTotalSpending ==
  lastAction = "repayments" =>
    \A i \in 1..Len(creditCardRepayments) :
      NumEq(SumTotalAmounts(creditCardRepayments[i].categoryBreakdown),
            creditCardRepayments[i].totalSpending)

\* C16: empty input yields an empty result: calculateCreditCardRepayments
\* returns no period when the map has no keys, when the event list is empty
\* and when the map is shorter than the shortest billing cycle (28 days);
\* calculateCategoryBreakdown returns no entry when no event touches the period.
C16_EmptyInputYieldsEmptyResult ==
  lastAction = "repayments" =>
    /\ DOMAIN dailySpending = {} => creditCardRepayments = <<>>
    /\ allEvents = <<>> => creditCardRepayments = <<>>
    /\ Cardinality(DOMAIN dailySpending) < 28 => creditCardRepayments = <<>>
    /\ \A i \in 1..Len(creditCardRepayments) :
         FilterEvents(allEvents, creditCardRepayments[i].periodStart,
                      creditCardRepayments[i].periodEnd) = <<>>
           => creditCardRepayments[i].categoryBreakdown = <<>>

\* The fiscal year the keys of dailySpending begin in: the one the map was
\* built for.
FiscalYearOfMap == FinancialYearFrom(YMD(EarliestKey(dailySpending)).year)

\* C20: the two copies of the proration algorithm return the same startDate,
\* endDate and dailyAmount for every event: calculateEventProratedPeriod,
\* called for an emitted period with the fiscal year derived from the current
\* date, and calculateProratedSpending with the fiscal year the map was
\* built for, also when the clock has moved on since the map was built.
C20_ProrationCopiesAgree ==
  (lastAction = "repayments" /\ creditCardRepayments # <<>>) =>
    \A j \in 1..Len(allEvents) :
      calculateEventProratedPeriod(
        allEvents[j], SetZoneAuckland(FromISO(allEvents[j].date)))
      = calculateProratedSpending(
          allEvents[j], SetZoneAuckland(FromISO(allEvents[j].date)),
          FiscalYearOfMap.start, FiscalYearOfMap.end)

\* Periods are emitted for a non-bill event while the current year is the
\* one after the year the fiscal year of the map began in.
C20_Witness ==
  /\ lastAction = "repayments"
  /\ creditCardRepayments # <<>>
  /\ now.year = YMD(FiscalYearOfMap.start.ord).year + 1
  /\ \E j \in 1..Len(allEvents) :
       ~allEvents[j].is_bill /\ ~IsExcludedEvent(allEvents[j])

\* The bill entries of event in a categoryBreakdown, as (category, bill)
\* positions.
BillEntries(event, entries) ==
  {cb \in UNION {{<<c, b>> : b \in 1..Len(entries[c].bills)} : c \in 1..Len(entries)} :
     entries[cb[1]].bills[cb[2]].event = event}

\* The event's calendar day lies in [periodStart day, periodEnd day].
IsDatedInPeriod(event, period) ==
  period.periodStart.ord <= event.date /\ event.date <= period.periodEnd.ord

\* C12: a non-excluded bill appears in the categoryBreakdown of a
\* period if and only if its day lies in [periodStart day, periodEnd day].
C12_BillAppearsIffDatedInPeriod ==
  lastAction = "repayments" =>
    \A i \in 1..Len(creditCardRepayments), j \in 1..Len(allEvents) :
      (allEvents[j].is_bill /\ ~IsExcludedEvent(allEvents[j])) =>
        (BillEntries(allEvents[j], creditCardRepayments[i].categoryBreakdown) # {}
           <=> IsDatedInPeriod(allEvents[j], creditCardRepayments[i]))

\* The events without the one at position j.
WithoutEventAt(events, j) ==
  SubSeq(events, 1, j - 1) \o SubSeq(events, j + 1, Len(events))

\* The calendar days of the repeat_interval months that begin with the
\* event's month, within the fiscal year from fyStart to fyEnd.
MonthsOfEventInFiscalYear(event, fyStart, fyEnd) ==
  {k \in fyStart.ord..fyEnd.ord :
     /\ FirstOfMonth(YMD(event.date)) <= k
     /\ k < PlusMonths(DT(FirstOfMonth(YMD(event.date)), 0), event.repeat_interval).ord}

\* C14: a non-bill monthly event anchored inside the fiscal year changes
\* exactly the days of its repeat_interval months within the fiscal year,
\* and alone in the input it gives each of them the same amount.
C14_MonthlyEventFillsItsMonths ==
  lastAction = "map" =>
    \A j \in 1..Len(allEvents) :
      (/\ ~allEvents[j].is_bill
       /\ ~allEvents[j].is_transfer
       /\ allEvents[j].title # SentinelDailyMap
       /\ allEvents[j].repeat_type = "monthly"
       /\ allEvents[j].amount # 0
       /\ getCurrentNZFinancialYear.start.ord <= allEvents[j].date
       /\ allEvents[j].date <= getCurrentNZFinancialYear.end.ord) =>
        /\ {k \in DOMAIN dailySpending :
              ~NumEq(dailySpending[k],
                     buildDailySpendingMap(WithoutEventAt(allEvents, j))[k])}
           = MonthsOfEventInFiscalYear(allEvents[j], getCurrentNZFinancialYear.start, getCurrentNZFinancialYear.end)
        /\ Len(allEvents) = 1 =>
             \A k, l \in MonthsOfEventInFiscalYear(allEvents[j], getCurrentNZFinancialYear.start, getCurrentNZFinancialYear.end) :
               NumEq(dailySpending[k], dailySpending[l])

\* The event with repeat_type 'monthly' when its own is neither 'monthly'
\* nor 'yearly'.
AsMonthly(event) ==
  IF event.repeat_type \in {"monthly", "yearly"} THEN event
  ELSE [event EXCEPT !.repeat_type = "monthly"]

AllAsMonthly(events) == [j \in DOMAIN events |-> AsMonthly(events[j])]

\* C15: an event whose repeat_type is neither 'monthly' nor 'yearly' gets, on
\* both paths, the span and dailyAmount of the same event with repeat_type
\* 'monthly', and the map and the schedule are those of the input with such
\* events made monthly: no event is rejected and the rest is processed.
C15_UnknownRepeatTypeIsMonthly ==
  /\ lastAction = "map" =>
       /\ \A j \in 1..Len(allEvents) :
            calculateProratedSpending(
              allEvents[j], SetZoneAuckland(FromISO(allEvents[j].date)),
              getCurrentNZFinancialYear.start, getCurrentNZFinancialYear.end)
            = calculateProratedSpending(
                AsMonthly(allEvents[j]), SetZoneAuckland(FromISO(allEvents[j].date)),
                getCurrentNZFinancialYear.start, getCurrentNZFinancialYear.end)
       /\ dailySpending = buildDailySpendingMap(AllAsMonthly(allEvents))
  /\ lastAction = "repayments" =>
       /\ \A j \in 1..Len(allEvents) :
            calculateEventProratedPeriod(
              allEvents[j], SetZoneAuckland(FromISO(allEvents[j].date)))
            = calculateEventProratedPeriod(
                AsMonthly(allEvents[j]), SetZoneAuckland(FromISO(allEvents[j].date)))
       /\ creditCardRepayments
            = calculateCreditCardRepayments(dailySpending, AllAsMonthly(allEvents))

\* A period's breakdown holds a prorated amount of an event whose
\* repeat_type is neither 'monthly' nor 'yearly'.
C15_Witness ==
  /\ lastAction = "repayments"
  /\ \E j \in 1..Len(allEvents), i \in 1..Len(creditCardRepayments) :
       /\ allEvents[j].repeat_type \notin {"monthly", "yearly"}
       /\ \E c \in 1..Len(creditCardRepayments[i].categoryBreakdown) :
            /\ creditCardRepayments[i].categoryBreakdown[c].categoryTitle
                 = allEvents[j].title
            /\ NumPositive(creditCardRepayments[i].categoryBreakdown[c].proratedAmount)
       /\ \A k \in 1..Len(allEvents) : k # j => allEvents[k].title # allEvents[j].title

\* The calendar month n months after the month of start.
MonthAfter(start, n) ==
  [year |-> YMD(start.ord).year + ((YMD(start.ord).month - 1 + n) \div 12),
   month |-> ((YMD(start.ord).month - 1 + n) % 12) + 1]

\* C18: for start <= end getMonthlyPeriods returns one entry per calendar
\* month touched, in order; the first begins at start, the last ends at end,
\* every other boundary is a month start or a month end, each entry begins
\* one millisecond after the previous one ends (disjoint, union [start, end]),
\* year and month name the month the entry lies in, and a fiscal year gives
\* 12 entries.
C18_OneEntryPerMonthTouched ==
  lastAction = "months" =>
    /\ Len(monthlyPeriods) = MonthsTouched(range.start, range.end)
    /\ monthlyPeriods[1].start = range.start
    /\ monthlyPeriods[Len(monthlyPeriods)].end = range.end
    /\ \A i \in 1..Len(monthlyPeriods) :
         LET entry == monthlyPeriods[i]
             month == MonthAfter(range.start, i - 1)
         IN  /\ entry.year = month.year /\ entry.month = month.month
             /\ DTLeq(entry.start, entry.end)
             /\ YMD(entry.start.ord).year = entry.year
             /\ YMD(entry.start.ord).month = entry.month
             /\ YMD(entry.end.ord).year = entry.year
             /\ YMD(entry.end.ord).month = entry.month
             /\ i > 1 => entry.start = DT(Ord(entry.year, entry.month, 1), 0)
             /\ i < Len(monthlyPeriods) =>
                  /\ entry.end = DT(Ord(entry.year, entry.month,
                                        DaysInMonth(entry.year, entry.month)),
                                    MsPerDay - 1)
                  /\ monthlyPeriods[i + 1].start = DT(entry.end.ord + 1, 0)
    /\ range = FinancialYearFrom(YMD(range.start.ord).year) => Len(monthlyPeriods) = 12

\* A range from the middle of a day in mid-month to the middle of a day in a
\* later month gave three entries or more.
C18_Witness ==
  /\ lastAction = "months"
  /\ Len(monthlyPeriods) >= 3
  /\ YMD(range.start.ord).day = 15
  /\ range.start.ms = 12 * 60 * 60 * 1000
  /\ range.end.ms = 12 * 60 * 60 * 1000
  /\ YMD(range.end.ord).day = 28

\* p is a number and 0 <= p <= 100.
IsPercentage(p) ==
  /\ ~isNaN(p)
  /\ ~IsInfinite(p)
  /\ NumLeq(Zero, p)
  /\ NumLeq(p, Plain(100))

\* C17: getPercentageInput resolves only with a number in [0, 100], after any
\* sequence of rejected answers, and every percentage passed to
\* applyHeadroomToRepayments in updateCreditCardRepayments is in [0, 100]:
\* headroomPercentage, which is 0 until getPercentageInput resolves, then
\* what it resolved with, and is what applyHeadroomToRepayments is given.
C17_AppliedPercentageIsInRange ==
  headroom.pc # "idle" => IsPercentage(headroom.percentage)

\* After two rejected answers and a percentage the user declined, the
\* percentage 15.5 was applied.
C17_Witness ==
  /\ headroom.pc = "isHappy"
  /\ headroom.rejected = MaxRejections
  /\ headroom.rounds = 1
  /\ headroom.percentage = Round(1, BigOfNat(31), -1, FALSE)

\* C24: every billing cycle (the 3rd of a month to the 2nd of the next) whose
\* days are all keys of the daily map and whose repayment month is the
\* current month or later is among the periods calculateCreditCardRepayments
\* returns, also the cycle that ends on the latest key of the map.
C24_EveryCoveredCycleIsEmitted ==
  lastAction = "repayments" =>
    \A y \in {c \in CalendarYears : c < LastYear}, m \in 1..12 :
      ((\A k \in Ord(y, m, 3)..Ord(NextMonthOf(y, m).year, NextMonthOf(y, m).month, 2) :
          k \in DOMAIN dailySpending)
       /\ NextMonthOf(y, m).year * 12 + NextMonthOf(y, m).month
            >= now.year * 12 + now.month) =>
        \E i \in 1..Len(creditCardRepayments) :
          /\ creditCardRepayments[i].periodStart.ord = Ord(y, m, 3)
          /\ creditCardRepayments[i].periodEnd.ord
               = Ord(NextMonthOf(y, m).year, NextMonthOf(y, m).month, 2)

\* The calls of updateCreditCardRepaymentEvents so far, each the schedule
\* passed to it.
UpdateCalls == IF headroom.pc = "idle" THEN <<>> ELSE headroom.written

\* C22: updateCreditCardRepaymentEvents is called only after the user has
\* answered yes ('y' or 'yes', any case, white space around) to the last
\* confirmation, once, and never when allEvents is empty or the computed
\* schedule is empty; on every other path no call is made: not before the
\* last confirmation, and not when the action ends with 'No changes made'.
\* The call may return or throw; either way it was made after a yes.
C22_WriteBackOnlyAfterYes ==
  /\ UpdateCalls # <<>> =>
       /\ Len(UpdateCalls) = 1
       /\ headroom.pc \in {"update", "done"}
       /\ headroom.shouldUpdate
       /\ headroom.answer \in {<<"y">>, <<"Y", "e", "s">>, <<" ", "y", "e", "s", " ">>,
                               <<"Y", "E", "S">>, <<"\f", "y">>, <<"U+00A0", "Y", "\t">>}
       /\ Len(allEvents) # 0
       /\ creditCardRepayments # <<>>
  /\ headroom.pc \in {"wantsHeadroom", "percentage", "isHappy", "shouldUpdate"} =>
       UpdateCalls = <<>>
  /\ headroom.pc = "done" =>
       /\ lastAction \in {"updated", "updateerror", "unchanged"}
       /\ lastAction = "unchanged" <=> UpdateCalls = <<>>
  /\ (Len(allEvents) = 0 \/ creditCardRepayments = <<>>) => headroom.pc = "idle"

\* The schedule was passed to updateCreditCardRepaymentEvents after the user
\* asked for headroom, and the call threw.
C22_Witness ==
  /\ headroom.pc = "done"
  /\ headroom.wantsHeadroom
  /\ Len(headroom.written) = 1
  /\ lastAction = "updateerror"

\* C23: every attempt of the headroom loop applies the percentage to
\* originalRepayments; finalRepayments is originalRepayments until the user
\* accepts an attempt and then the adjusted schedule of that attempt, it is
\* originalRepayments when the user declines headroom, and what is passed
\* to updateCreditCardRepaymentEvents is finalRepayments.
C23_OriginalScheduleIsRetained ==
  headroom.pc # "idle" =>
    /\ headroom.pc \in {"wantsHeadroom", "percentage", "isHappy"} =>
         headroom.final = creditCardRepayments
    /\ headroom.pc = "isHappy" =>
         headroom.adjusted
           = applyHeadroomToRepayments(creditCardRepayments, headroom.percentage)
    /\ headroom.pc \in {"shouldUpdate", "update", "done"} =>
         headroom.final
           = IF headroom.wantsHeadroom
             THEN applyHeadroomToRepayments(creditCardRepayments, headroom.percentage)
             ELSE creditCardRepayments
    /\ \A k \in 1..Len(headroom.written) : headroom.written[k] = headroom.final
    /\ \A i \in 1..Len(headroom.adjusted) :
         headroom.adjusted[i].totalSpending.amount = creditCardRepayments[i].totalSpending

\* The user declined a first percentage, accepted the second, 20, and had
\* the schedule with it passed on; an existing event of a repayment month
\* got its amount.
C23_Witness ==
  /\ headroom.pc = "done"
  /\ headroom.rounds = 1
  /\ headroom.percentage = Plain(20)
  /\ Len(headroom.written) = 1
  /\ headroom.written[1] = applyHeadroomToRepayments(creditCardRepayments, Plain(20))
  /\ headroom.written[1] # creditCardRepayments
  /\ headroom.put = {RepaymentEvent}
  /\ remoteEvents = AfterUpdates(allEvents, headroom.written[1], {RepaymentEvent})

\* The fiscal years a fetch may have built the map for.
FiscalYears ==
  {FinancialYearFrom(IF Clock[i].month < 4 THEN Clock[i].year - 1 ELSE Clock[i].year) :
     i \in 1..Len(Clock)}

\* C21: after any sequence of menu actions, a fetch that failed partway and
\* was caught by the menu included, the breakdown and the update run on a
\* dailySpending that is the map built from the current allEvents: the map
\* buildDailySpendingMap made of allEvents for the fiscal year of a fetch.
C21_MapIsBuiltFromAllEvents ==
  lastAction \in {"breakdown", "update"} =>
    \E fy \in FiscalYears : dailySpending = BuildFor(fy, allEvents)

\* Both files of the month are there.
HasCompleteEntry(files, year, month) ==
  /\ EntryAt(files, year, month).events # NoFile
  /\ EntryAt(files, year, month).metadata # NoFile

\* Both files are there and the events file holds the whole text of a write.
HasReadableEntry(files, year, month) ==
  /\ HasCompleteEntry(files, year, month)
  /\ EntryAt(files, year, month).events.state = "written"

\* The step at which a call of getMonthlyEvents has decided whether to ask
\* the API: it is called with forceRefresh, or loadCachedEvents returns.
Decides ==
  /\ monthlyCall'.outcome = "running"
  /\ monthlyCall'.within # "loadCachedEvents"
  /\ monthlyCall.outcome # "running" \/ monthlyCall.within = "loadCachedEvents"

\* The step at which a call returns to its caller.
Returns == monthlyCall.outcome = "running" /\ monthlyCall'.outcome = "returned"

\* C25 as stated: getMonthlyEvents calls the API for a month if and only if
\* forceRefresh is true or no complete cache entry (both the events file and
\* the metadata file) exists for that year and month.
C25_ApiIffForcedOrNoCompleteEntry ==
  [][Decides =>
       (monthlyCall'.calledApi
          <=> \/ monthlyCall'.forceRefresh
              \/ ~HasCompleteEntry(cacheFiles, monthlyCall'.year, monthlyCall'.month))]_vars

\* What the amended C25 says of the steps of a call of getMonthlyEvents.
CallsApiIffForcedOrUnreadable ==
  Decides =>
    (monthlyCall'.calledApi
       <=> \/ monthlyCall'.forceRefresh
           \/ ~HasReadableEntry(cacheFiles, monthlyCall'.year, monthlyCall'.month))

\* Nothing but a decision to ask the API makes a call one that asked it.
AsksOnlyWhenDecided ==
  (monthlyCall'.outcome # "none" /\ monthlyCall'.calledApi) =>
    \/ Decides
    \/ monthlyCall.outcome # "none" /\ monthlyCall.calledApi
         /\ monthlyCall'.year = monthlyCall.year /\ monthlyCall'.month = monthlyCall.month
         /\ monthlyCall'.before = monthlyCall.before

SavesBeforeReturning ==
  (Returns /\ monthlyCall'.calledApi) =>
    /\ EntryAt(cacheFiles, monthlyCall.year, monthlyCall.month).events
         = Written(Stringify(monthlyCall'.events))
    /\ EntryAt(cacheFiles', monthlyCall.year, monthlyCall.month)
         = [events |-> Written(Stringify(monthlyCall'.events)),
            metadata |-> Written([year |-> monthlyCall.year, month |-> monthlyCall.month,
                                  cachedAt |-> monthlyCall.cachedAt,
                                  eventCount |-> Len(monthlyCall'.events)])]
    /\ Parse(EntryAt(cacheFiles', monthlyCall.year, monthlyCall.month).events.text)
         = monthlyCall'.events

ReturnsTheCacheUntouched ==
  /\ (monthlyCall'.outcome # "none" /\ ~monthlyCall'.calledApi) =>
       /\ cacheFiles' = cacheFiles
       /\ monthlyCall'.outcome # "threw"
  /\ (Returns /\ ~monthlyCall'.calledApi) =>
       /\ ~monthlyCall'.forceRefresh
       /\ HasReadableEntry(cacheFiles, monthlyCall.year, monthlyCall.month)
       /\ monthlyCall'.events
            = Parse(EntryAt(cacheFiles, monthlyCall.year, monthlyCall.month).events.text)

ReturnsWhatTheCallBeforeFetched ==
  ( /\ monthlyCall'.outcome # "none"
    /\ monthlyCall'.before.outcome = "returned"
    /\ monthlyCall'.before.calledApi
    /\ monthlyCall'.before.year = monthlyCall'.year
    /\ monthlyCall'.before.month = monthlyCall'.month
    /\ ~monthlyCall'.forceRefresh ) =>
    /\ ~monthlyCall'.calledApi
    /\ monthlyCall'.outcome # "threw"
    /\ monthlyCall'.outcome = "returned" => monthlyCall'.events = monthlyCall'.before.events

FetchNeverUsesTheCache ==
  /\ menu' = "fetching" =>
       /\ monthlyCall'.forceRefresh /\ monthlyCall'.calledApi
       /\ monthlyCall'.year = monthlyPeriods'[fetching'.done
                                                + IF monthlyCall'.outcome = "returned"
                                                  THEN 0 ELSE 1].year
       /\ monthlyCall'.month = monthlyPeriods'[fetching'.done
                                                 + IF monthlyCall'.outcome = "returned"
                                                   THEN 0 ELSE 1].month
  /\ (monthlyCall.outcome = "running" /\ monthlyCall.at = "get"
        /\ monthlyCall'.outcome = "running" /\ monthlyCall'.at # "get") =>
       monthlyCall'.events
         = fetchMonthlyEvents(remoteEvents, monthlyCall.year, monthlyCall.month)
  /\ (monthlyCall.outcome = "running" /\ monthlyCall.at # "get"
        /\ monthlyCall.calledApi /\ monthlyCall'.outcome # "threw") =>
       monthlyCall'.events = monthlyCall.events
  /\ menu = "fetching" =>
       allEvents' = IF Returns THEN allEvents \o monthlyCall'.events ELSE allEvents

\* C25, amended: getMonthlyEvents calls the API for a month if and only if
\* forceRefresh is true or loadCachedEvents returns null, that is, a file of
\* the month is missing or the events file does not parse; events fetched
\* from the API are saved, with their metadata, before they are returned; a
\* call that does not reach the API returns what the events file holds and
\* leaves the cache as it is, so a non-forced call for the same month right
\* after a call that returned fetched events returns the same events without
\* the API, whatever the service holds by then; and a fetch forces every
\* month, so each pass of its loop pushes to allEvents, and saves, what the
\* service held for the month when it answered, never the cache.
C25_ApiIffForcedOrNoReadableEntry ==
  [][monthlyCall' # monthlyCall =>
       /\ CallsApiIffForcedOrUnreadable
       /\ AsksOnlyWhenDecided
       /\ SavesBeforeReturning
       /\ ReturnsTheCacheUntouched
       /\ ReturnsWhatTheCallBeforeFetched
       /\ FetchNeverUsesTheCache]_vars

\* A non-forced call, right after a forced call for the same month that
\* returned what it fetched, returned the same events from the cache
\* although the service holds other events for that month by now.
C25_Witness ==
  /\ monthlyCall.outcome = "returned"
  /\ ~monthlyCall.forceRefresh
  /\ ~monthlyCall.calledApi
  /\ monthlyCall.events # <<>>
  /\ monthlyCall.before.outcome = "returned"
  /\ monthlyCall.before.calledApi
  /\ monthlyCall.before.events = monthlyCall.events
  /\ fetchMonthlyEvents(remoteEvents, monthlyCall.year, monthlyCall.month)
       # monthlyCall.events
  /\ EntryAt(cacheFiles, monthlyCall.year, monthlyCall.month).events
       = Written(Stringify(monthlyCall.events))

====
